---- MODULE Spec2Model ----
(***************************************************************************)
(* A model of easy_sast: main.py drives the effective configuration, the   *)
(* API sessions and the workflow steps submit_artifacts (veracode/         *)
(* submit_artifacts.py) and check_compliance (veracode/check_compliance.py)*)
(* over the Veracode XML APIs.  Every remote call is one step; the answer  *)
(* of the service is an input of that step.                                *)
(***************************************************************************)
EXTENDS Integers, Sequences, FiniteSets, TLC

\* ------------------------------------------------------------------------
\* Bounds of the model
\* ------------------------------------------------------------------------
MaxFiles == 2
MaxSandboxes == 2
MaxApps == 2

\* ------------------------------------------------------------------------
\* Python values
\* ------------------------------------------------------------------------
\* None, and the absence of an XML attribute or parameter
NoneVal == "<None>"
\* No exception
NoExc == "<none>"

Last(s) == s[Len(s)]

\* The last n elements of s (Python s[-n:])
Tail2(s) == IF Len(s) <= 2 THEN s ELSE SubSeq(s, Len(s) - 1, Len(s))

\* int(value) on a string: the model's strings that hold a whole number
IntStrings == {"31337", "1337", "111", "222", " 42"}

\* ------------------------------------------------------------------------
\* veracode/constants.py
\* ------------------------------------------------------------------------
SUPPORTED_WORKFLOWS == {"submit_artifacts", "check_compliance"}
DEFAULT_WORKFLOW == <<"submit_artifacts", "check_compliance">>
WHITELIST_FILE_SUFFIX_SET ==
    {".exe", ".pdb", ".dll", ".jar", ".zip", ".tar", ".tgz", ".war", ".ear",
     ".apk", ".ipa"}
WHITELIST_FILE_SUFFIXES_LIST == <<".tar", ".gz">>

\* ------------------------------------------------------------------------
\* The remote service: what one request can be answered with
\* ------------------------------------------------------------------------
\* Exceptions of the transport (requests.exceptions and ConnectionError)
TransportErrors ==
    {"HTTPError", "ConnectionError", "Timeout", "TooManyRedirects",
     "RequestException"}

\* The exceptions the workflow functions name in their except clauses
CaughtBySandbox == TransportErrors \cup {"RuntimeError"}

\* Root tags of a parsed answer; "<malformed>" is a body that is not XML
RootTags == {"error", "Error", "doc"}

\* str.casefold on the root tags and the URL schemes of the model
casefold(tag) ==
    CASE tag \in {"error", "Error"} -> "error"
      [] tag \in {"https", "HTTPS"} -> "https"
      [] OTHER -> tag

\* An answer: exc is the exception of the transport (NoExc when the request
\* got a response), status the HTTP status, root the root tag of the body
\* and items its child elements
Answer(exc, status, root, items) ==
    [exc |-> exc, status |-> status, root |-> root, items |-> items]

\* Answers that never reach the parsed document
FailedAnswers ==
    {Answer(e, 0, "doc", <<>>) : e \in TransportErrors}
    \cup {Answer(NoExc, 500, "doc", <<>>),
          Answer(NoExc, 200, "<malformed>", <<>>),
          Answer(NoExc, 200, "error", <<>>),
          Answer(NoExc, 200, "Error", <<>>)}

\* element_contains_error
element_contains_error(parsed_xml) == casefold(parsed_xml.root) = "error"

\* Response.raise_for_status of the transport: it raises for the client and
\* server error statuses only
raise_for_status(status) == status >= 400 /\ status < 600

\* http_request of veracode/api.py: the exception it raises (NoExc when it
\* returns the parsed document)
http_request(resp) ==
    IF resp.exc # NoExc THEN resp.exc
    ELSE IF resp.status # 200 /\ raise_for_status(resp.status) THEN "HTTPError"
    ELSE IF resp.root = "<malformed>" THEN "ParseError"
    ELSE IF element_contains_error(resp) THEN "RuntimeError"
    ELSE NoExc

\* http_request of veracode/utils.py: it returns whatever parses
utils_http_request(resp) ==
    IF resp.exc # NoExc THEN resp.exc
    ELSE IF resp.status # 200 /\ raise_for_status(resp.status) THEN "HTTPError"
    ELSE IF resp.root = "<malformed>" THEN "ParseError"
    ELSE NoExc


\* ------------------------------------------------------------------------
\* Documents of the endpoints
\* ------------------------------------------------------------------------
SeqsUpTo(S, n) == UNION {[1..k -> S] : k \in 0..n}

\* A document whose content the caller does not read
PlainDoc == Answer(NoExc, 200, "doc", <<>>)
PlainAnswers == FailedAnswers \cup {PlainDoc}

\* <sandbox> elements of getsandboxlist.do and createsandbox.do; an element
\* may lack the sandbox_id attribute
SandboxNames == {"dev", "qa"}
SandboxIds == {"111", "abc", NoneVal}
SandboxElems == [sandbox_name : SandboxNames, sandbox_id : SandboxIds]
SandboxAnswers ==
    FailedAnswers
    \cup {Answer(NoExc, 200, "doc", items) :
            items \in SeqsUpTo(SandboxElems, MaxSandboxes)}

\* <build> elements of getbuildinfo.do: the results_ready attribute and the
\* status attributes of the child elements, in document order
MaxUnits == 2
ReadyValues == {"true", "false", NoneVal}
StatusValues == {"Vendor Reviewing", "Scan In Process", NoneVal}
BuildInfoElems ==
    [results_ready : ReadyValues, units : SeqsUpTo(StatusValues, MaxUnits)]
BuildInfoAnswers ==
    FailedAnswers
    \cup {Answer(NoExc, 200, "doc", items) :
            items \in SeqsUpTo(BuildInfoElems, 1)}

\* ------------------------------------------------------------------------
\* Files of the build directory
\* ------------------------------------------------------------------------
\* pathlib's PurePath.suffix of a name given as its pieces between the
\* dots: the text from the last dot on, unless that dot starts or ends the
\* name
PathSuffix(segs) ==
    IF /\ Len(segs) >= 2
       /\ Last(segs) # ""
       /\ (Len(segs) > 2 \/ segs[1] # "")
    THEN "." \o Last(segs) ELSE ""

\* str.lstrip('.') on the pieces: the empty pieces in front are dropped
RECURSIVE lstrip(_)
lstrip(segs) ==
    IF Len(segs) > 1 /\ Head(segs) = "" THEN lstrip(Tail(segs)) ELSE segs

\* pathlib's PurePath.suffixes: nothing for a name that ends with a dot,
\* else every piece but the first of the name without its leading dots
PathSuffixes(segs) ==
    IF Len(segs) >= 2 /\ Last(segs) = "" THEN <<>>
    ELSE [i \in 1..(Len(lstrip(segs)) - 1) |-> "." \o lstrip(segs)[i + 1]]

\* A directory entry: its name, the pieces of the name between the dots,
\* and pathlib's suffix and suffixes of it
PathOf(name, segs) ==
    [name |-> name, segs |-> segs, suffix |-> PathSuffix(segs),
     suffixes |-> PathSuffixes(segs)]

Files ==
    {PathOf("app.jar", <<"app", "jar">>),
     PathOf("src.tar.gz", <<"src", "tar", "gz">>),
     PathOf("notes.txt", <<"notes", "txt">>),
     PathOf("lib.dll.gz", <<"lib", "dll", "gz">>),
     PathOf("README", <<"README">>)}

\* Path.suffix
suffix(artifact) == artifact.suffix

\* filter_file that looks at the last two suffixes one by one
filter_file_any_of_two(artifact) ==
    \/ suffix(artifact) \in WHITELIST_FILE_SUFFIX_SET
    \/ \E i \in 1..Len(Tail2(artifact.suffixes)) :
          Tail2(artifact.suffixes)[i] \in WHITELIST_FILE_SUFFIX_SET

\* filter_file
filter_file(artifact) ==
    \/ suffix(artifact) \in WHITELIST_FILE_SUFFIX_SET
    \/ Tail2(artifact.suffixes) = WHITELIST_FILE_SUFFIXES_LIST

\* The listings iterdir can yield: distinct entries in any order
Listings ==
    {l \in SeqsUpTo(Files, MaxFiles) :
        \A i, j \in 1..Len(l) : i # j => l[i] # l[j]}

\* The entries of a listing that pass filter_file, in listing order
RECURSIVE Admitted(_)
Admitted(l) ==
    IF l = <<>> THEN <<>>
    ELSE IF filter_file(Head(l)) THEN <<Head(l)>> \o Admitted(Tail(l))
    ELSE Admitted(Tail(l))


\* ------------------------------------------------------------------------
\* The functions of veracode/submit_artifacts.py on one answer of the
\* service.  Each yields Ret(v) or Raise(e).
\* ------------------------------------------------------------------------
Ret(v) == [exc |-> NoExc, val |-> v]
Raise(e) == [exc |-> e, val |-> NoneVal]

\* int(value) is not tried: every string passes
ParsesAsInt_unchecked(value) == TRUE

\* int(value) succeeds on the string
ParsesAsInt(value) == value \in IntStrings

\* The sandbox_id setter of the Upload session: None, or a string holding a
\* whole number
is_valid_sandbox_id(value) == value = NoneVal \/ ParsesAsInt(value)

\* create_build
create_build(resp) ==
    LET e == http_request(resp) IN
    IF e \in TransportErrors THEN Ret("False")
    ELSE IF e # NoExc THEN Raise(e)
    ELSE IF element_contains_error(resp) THEN Ret("False")
    ELSE Ret("True")

\* begin_prescan
begin_prescan(resp) ==
    LET e == http_request(resp) IN
    IF e \in TransportErrors THEN Ret("False")
    ELSE IF e # NoExc THEN Raise(e)
    ELSE IF element_contains_error(resp) THEN Ret("False")
    ELSE Ret("True")

\* upload_large_file that logs a failed request and goes on
upload_large_file_skips(resp) == Ret("True")

\* upload_large_file once the artifact has been read
upload_large_file(resp) ==
    LET e == http_request(resp) IN
    IF e # NoExc THEN Raise(e) ELSE Ret("True")

\* The sandbox_id of the first element named sandbox_name, None without one
RECURSIVE FirstSandboxId(_, _)
FirstSandboxId(items, sandbox_name) ==
    IF items = <<>> THEN NoneVal
    ELSE IF Head(items).sandbox_name = sandbox_name
         THEN Head(items).sandbox_id
    ELSE FirstSandboxId(Tail(items), sandbox_name)

\* get_sandbox_id
get_sandbox_id(resp, sandbox_name) ==
    LET e == http_request(resp) IN
    IF e \in CaughtBySandbox THEN Raise("RuntimeError")
    ELSE IF e # NoExc THEN Raise(e)
    ELSE IF element_contains_error(resp) THEN Raise("RuntimeError")
    ELSE Ret(FirstSandboxId(resp.items, sandbox_name))

\* create_sandbox
create_sandbox(resp) ==
    LET e == http_request(resp) IN
    IF e \in CaughtBySandbox THEN Raise("RuntimeError")
    ELSE IF e # NoExc THEN Raise(e)
    ELSE IF element_contains_error(resp) THEN Raise("RuntimeError")
    ELSE IF resp.items = <<>> THEN Raise("RuntimeError")
    ELSE Ret(resp.items[1].sandbox_id)

\* cancel_build that reports success whatever the request did
cancel_build_unchecked(resp) ==
    LET e == http_request(resp) IN
    IF e \notin CaughtBySandbox /\ e # NoExc THEN Raise(e) ELSE Ret("True")

\* cancel_build
cancel_build(resp) ==
    LET e == http_request(resp) IN
    IF e \in CaughtBySandbox THEN Ret("False")
    ELSE IF e # NoExc THEN Raise(e)
    ELSE IF element_contains_error(resp) THEN Ret("False")
    ELSE Ret("True")

\* The status attribute found last among the child elements, None without
RECURSIVE LastStatus(_)
LastStatus(units) ==
    IF units = <<>> THEN NoneVal
    ELSE IF Last(units) # NoneVal THEN Last(units)
    ELSE LastStatus(SubSeq(units, 1, Len(units) - 1))

\* is_ready_for_new_build
is_ready_for_new_build(resp) ==
    LET e == http_request(resp) IN
    IF e \in CaughtBySandbox THEN Raise("RuntimeError")
    ELSE IF e # NoExc THEN Raise(e)
    ELSE IF element_contains_error(resp) THEN Raise("RuntimeError")
    ELSE IF resp.items = <<>> THEN Raise("RuntimeError")
    ELSE IF resp.items[1].results_ready = "true" THEN Ret("True")
    ELSE IF LastStatus(resp.items[1].units) = "Vendor Reviewing"
         THEN Ret("True")
    ELSE IF LastStatus(resp.items[1].units) = NoneVal
         THEN Raise("RuntimeError")
    ELSE Ret("False")


\* ------------------------------------------------------------------------
\* veracode/check_compliance.py on one answer of getappbuilds.do
\* ------------------------------------------------------------------------
\* The child elements an <application> element can have: a <build> with or
\* without the policy_compliance_status attribute, or another element
BuildTag == "build"
ChildElems ==
    {[tag |-> BuildTag, policy_compliance_status |-> st] :
        st \in {"Pass", "Did Not Pass", "Unknown", NoneVal}}
    \cup {[tag |-> "other", policy_compliance_status |-> NoneVal]}
AppChildren ==
    {<<>>}
    \cup {<<c>> : c \in ChildElems}
    \cup {<<[tag |-> BuildTag, policy_compliance_status |-> "Did Not Pass"],
            [tag |-> BuildTag, policy_compliance_status |-> "Pass"]>>,
          <<[tag |-> BuildTag, policy_compliance_status |-> "Pass"],
            [tag |-> "other", policy_compliance_status |-> NoneVal]>>}
AppIds == {"31337", "1337"}
\* <application> elements: those of application 31337 with every choice of
\* children, one of application 1337 and one that lacks the app_id attribute
AppElems ==
    [app_id : {"31337"}, children : AppChildren]
    \cup [app_id : {"1337", NoneVal},
          children : {<<[tag |-> BuildTag, policy_compliance_status |-> "Pass"]>>}]
AppBuildsAnswers ==
    FailedAnswers
    \cup {Answer(NoExc, 200, "doc", items) : items \in SeqsUpTo(AppElems, MaxApps)}

\* The not-found sentinel of get_latest_completed_build (False)
NotFound == [app_id |-> NoneVal, children |-> <<>>, found |-> FALSE]
Found(app) == [app_id |-> app.app_id, children |-> app.children, found |-> TRUE]

\* The first element whose app_id attribute equals app_id; reading the
\* attribute of an element that lacks it raises KeyError
RECURSIVE FirstApp(_, _)
FirstApp(items, app_id) ==
    IF items = <<>> THEN [exc |-> NoExc, val |-> NotFound]
    ELSE IF Head(items).app_id = NoneVal THEN [exc |-> "KeyError", val |-> NotFound]
    ELSE IF Head(items).app_id = app_id
         THEN [exc |-> NoExc, val |-> Found(Head(items))]
    ELSE FirstApp(Tail(items), app_id)

\* get_latest_completed_build without its except clause
get_latest_completed_build_raises(resp, app_id) ==
    LET e == http_request(resp) IN
    IF e # NoExc THEN [exc |-> e, val |-> NotFound]
    ELSE FirstApp(resp.items, app_id)

\* get_latest_completed_build
get_latest_completed_build(resp, app_id) ==
    LET e == http_request(resp) IN
    IF e \in CaughtBySandbox THEN [exc |-> NoExc, val |-> NotFound]
    ELSE IF e # NoExc THEN [exc |-> e, val |-> NotFound]
    ELSE FirstApp(resp.items, app_id)

\* The loop over the <build> elements: the status of the last one, starting
\* from status; a <build> without the attribute raises KeyError
RECURSIVE BuildStatus(_, _)
BuildStatus(children, status) ==
    IF children = <<>> THEN Ret(status)
    ELSE IF Head(children).tag # BuildTag THEN BuildStatus(Tail(children), status)
    ELSE IF Head(children).policy_compliance_status = NoneVal THEN Raise("KeyError")
    ELSE BuildStatus(Tail(children), Head(children).policy_compliance_status)

\* get_policy_compliance_status; an element without children is false
get_policy_compliance_status(resp, app_id) ==
    LET b == get_latest_completed_build(resp, app_id) IN
    IF b.exc # NoExc THEN Raise(b.exc)
    ELSE IF b.val.found /\ b.val.children # <<>>
         THEN BuildStatus(b.val.children, "Unknown")
    ELSE Ret("Unknown")

\* in_compliance
in_compliance(resp, app_id) ==
    LET s == get_policy_compliance_status(resp, app_id) IN
    IF s.exc # NoExc THEN Raise(s.exc)
    ELSE IF s.val = "Unknown" THEN Raise("ValueError")
    ELSE IF s.val = "Pass" THEN Ret("True") ELSE Ret("False")

\* check_compliance that lets the flag decide whenever the application is
\* not known to comply
check_compliance_masks_unknown(resp, app_id, ignore_compliance_status) ==
    LET c == in_compliance(resp, app_id) IN
    IF c.exc \notin {NoExc, "ValueError"} THEN Raise(c.exc)
    ELSE IF c.exc = "ValueError" \/ c.val = "False"
         THEN (IF ignore_compliance_status THEN Ret("True") ELSE Ret("False"))
    ELSE Ret("True")

\* check_compliance
check_compliance(resp, app_id, ignore_compliance_status) ==
    LET c == in_compliance(resp, app_id) IN
    IF c.exc = "ValueError" THEN Ret("False")
    ELSE IF c.exc # NoExc THEN Raise(c.exc)
    ELSE IF c.val = "False"
         THEN (IF ignore_compliance_status THEN Ret("True") ELSE Ret("False"))
    ELSE Ret("True")


\* ------------------------------------------------------------------------
\* State
\* ------------------------------------------------------------------------
VARIABLES
    entry,        \* the function that was called: main, submit_artifacts
                  \* or check_compliance
    pc,           \* the statement the program is at
    upload_api,   \* the Upload session
    results_api,  \* the Results session
    sandbox_api,  \* the Sandbox session given to submit_artifacts, if any
    requests,     \* the requests sent to the service so far, in order
    artifacts,    \* submit_artifacts: the admitted artifacts
    uploaded,     \* submit_artifacts: how many of them were uploaded
    sa_result,    \* what submit_artifacts returned or raised
    sb_answer,    \* submit_artifacts: the answer to the last request of the
                  \* Sandbox session
    cc_answer,    \* the answer check_compliance got from getappbuilds.do
    cc_result,    \* what check_compliance returned or raised
    environ,      \* os.environ, the two credential variables
    main_config,  \* main: the effective config
    sessions,     \* main: the sessions constructed so far
    step,         \* main: the index of the workflow step
    outcome,      \* main: how it ended
    call          \* a function called on its own: its name, its arguments,
                  \* whether it is over, and what it returned or raised

wfvars ==
    <<upload_api, results_api, sandbox_api, requests, artifacts, uploaded,
      sa_result, sb_answer, cc_answer, cc_result>>

mainvars == <<environ, main_config, sessions, step, outcome>>

vars == <<entry, pc, wfvars, mainvars, call>>

\* No function is called on its own
NoCall == [fn |-> "", done |-> FALSE]

\* Not returned yet
Pending == "<pending>"

\* What a function returned or raised, as one string
Outcome(r) == IF r.exc # NoExc THEN r.exc ELSE r.val

\* The entry of the request log: the endpoint, the sandbox_id parameter
\* (None when the request carries none), the file name of an upload,
\* whether http_request returned a document, and what the function that
\* sent the request returned or raised
Req(endpoint, sandbox_id, filename, resp, r) ==
    [endpoint |-> endpoint, sandbox_id |-> sandbox_id, filename |-> filename,
     ok |-> http_request(resp) = NoExc, result |-> Outcome(r)]

\* params["sandbox_id"] is set only if upload_api.sandbox_id is a string
SandboxParam == upload_api.sandbox_id

Send(endpoint, filename, resp, r) ==
    requests' = Append(requests, Req(endpoint, SandboxParam, filename, resp, r))

\* submit_artifacts returns or raises: main goes on, a direct call is over
SubmitEnds(result) ==
    /\ sa_result' = result
    /\ pc' = IF entry = "main" THEN "main:after_submit_artifacts" ELSE "done"

\* submit_artifacts, lines 305-333: with a Sandbox session the sandbox id
\* is resolved first
SubmitArtifacts ==
    /\ pc = "submit_artifacts"
    /\ pc' = IF sandbox_api.given THEN "get_sandbox_id"
             ELSE "is_ready_for_new_build"
    /\ artifacts' = <<>>
    /\ uploaded' = 0
    /\ sa_result' = Pending
    /\ UNCHANGED <<mainvars, entry, upload_api, results_api, sandbox_api,
                   requests, sb_answer, cc_answer, cc_result>>
    /\ UNCHANGED call

\* upload_api.sandbox_id = get_sandbox_id(sandbox_api=sandbox_api)
GetSandboxId ==
    /\ pc = "get_sandbox_id"
    /\ \E resp \in SandboxAnswers :
        LET r == get_sandbox_id(resp, sandbox_api.sandbox_name) IN
        /\ requests' = Append(requests,
               Req("getsandboxlist.do", NoneVal, "", resp, r))
        /\ sb_answer' = resp
        /\ IF r.exc = "RuntimeError"
             THEN SubmitEnds("False") /\ UNCHANGED upload_api
           ELSE IF r.exc # NoExc
             THEN SubmitEnds(r.exc) /\ UNCHANGED upload_api
           ELSE IF ~is_valid_sandbox_id(r.val)
             THEN SubmitEnds("ValueError") /\ UNCHANGED upload_api
           ELSE /\ upload_api' = [upload_api EXCEPT !.sandbox_id = r.val]
                /\ pc' = IF r.val = NoneVal THEN "create_sandbox"
                         ELSE "is_ready_for_new_build"
                /\ UNCHANGED sa_result
    /\ UNCHANGED <<mainvars, entry, results_api, sandbox_api, artifacts, uploaded,
                   cc_answer, cc_result>>
    /\ UNCHANGED call

\* upload_api.sandbox_id = create_sandbox(sandbox_api=sandbox_api)
CreateSandbox ==
    /\ pc = "create_sandbox"
    /\ \E resp \in SandboxAnswers :
        LET r == create_sandbox(resp) IN
        /\ requests' = Append(requests,
               Req("createsandbox.do", NoneVal, "", resp, r))
        /\ sb_answer' = resp
        /\ IF r.exc = "RuntimeError"
             THEN SubmitEnds("False") /\ UNCHANGED upload_api
           ELSE IF r.exc # NoExc
             THEN SubmitEnds(r.exc) /\ UNCHANGED upload_api
           ELSE IF ~is_valid_sandbox_id(r.val)
             THEN SubmitEnds("ValueError") /\ UNCHANGED upload_api
           ELSE /\ upload_api' = [upload_api EXCEPT !.sandbox_id = r.val]
                /\ pc' = "is_ready_for_new_build"
                /\ UNCHANGED sa_result
    /\ UNCHANGED <<mainvars, entry, results_api, sandbox_api, artifacts, uploaded,
                   cc_answer, cc_result>>
    /\ UNCHANGED call

\* setup_scan_prereqs, line 277
IsReadyForNewBuild ==
    /\ pc = "is_ready_for_new_build"
    /\ \E resp \in BuildInfoAnswers :
        LET r == is_ready_for_new_build(resp) IN
        /\ Send("getbuildinfo.do", "", resp, r)
        /\ IF r.exc # NoExc THEN SubmitEnds(r.exc)
           ELSE /\ pc' = IF r.val = "True" THEN "create_build"
                         ELSE "cancel_build"
                /\ UNCHANGED sa_result
    /\ UNCHANGED <<mainvars, entry, upload_api, results_api, sandbox_api, artifacts,
                   uploaded, sb_answer, cc_answer, cc_result>>
    /\ UNCHANGED call

\* setup_scan_prereqs, lines 282-284
CancelBuild ==
    /\ pc = "cancel_build"
    /\ \E resp \in PlainAnswers :
        LET r == cancel_build(resp) IN
        /\ Send("deletebuild.do", "", resp, r)
        /\ IF r.exc # NoExc THEN SubmitEnds(r.exc)
           ELSE IF r.val = "False" THEN SubmitEnds("False")
           ELSE pc' = "create_build" /\ UNCHANGED sa_result
    /\ UNCHANGED <<mainvars, entry, upload_api, results_api, sandbox_api, artifacts,
                   uploaded, sb_answer, cc_answer, cc_result>>
    /\ UNCHANGED call

\* setup_scan_prereqs that asks for the build again when createbuild.do
\* failed
CreateBuild_retries ==
    /\ pc = "create_build"
    /\ \E resp \in PlainAnswers :
        LET r == create_build(resp) IN
        /\ Send("createbuild.do", "", resp, r)
        /\ IF r.exc # NoExc THEN SubmitEnds(r.exc)
           ELSE IF r.val = "False"
             THEN IF \A i \in DOMAIN requests :
                          requests[i].endpoint # "createbuild.do"
                    THEN UNCHANGED <<pc, sa_result>>
                  ELSE SubmitEnds("False")
           ELSE pc' = "filter_file" /\ UNCHANGED sa_result
    /\ UNCHANGED <<mainvars, entry, upload_api, results_api, sandbox_api, artifacts,
                   uploaded, sb_answer, cc_answer, cc_result>>
    /\ UNCHANGED call

\* setup_scan_prereqs, lines 286-295, and submit_artifacts, lines 331-333
CreateBuild ==
    /\ pc = "create_build"
    /\ \E resp \in PlainAnswers :
        LET r == create_build(resp) IN
        /\ Send("createbuild.do", "", resp, r)
        /\ IF r.exc # NoExc THEN SubmitEnds(r.exc)
           ELSE IF r.val = "False" THEN SubmitEnds("False")
           ELSE pc' = "filter_file" /\ UNCHANGED sa_result
    /\ UNCHANGED <<mainvars, entry, upload_api, results_api, sandbox_api, artifacts,
                   uploaded, sb_answer, cc_answer, cc_result>>
    /\ UNCHANGED call


\* submit_artifacts, lines 336-345: list the build directory and keep the
\* entries filter_file admits; listing a missing directory raises
FilterFiles ==
    /\ pc = "filter_file"
    /\ \/ SubmitEnds("FileNotFoundError") /\ UNCHANGED artifacts
       \/ \E listing \in Listings :
            /\ artifacts' = Admitted(listing)
            /\ IF Admitted(listing) = <<>> THEN SubmitEnds("False")
               ELSE pc' = "upload_large_file" /\ UNCHANGED sa_result
    /\ uploaded' = 0
    /\ UNCHANGED <<mainvars, entry, upload_api, results_api, sandbox_api, requests,
                   sb_answer, cc_answer, cc_result>>
    /\ UNCHANGED call

\* submit_artifacts, lines 348-353: the next artifact is read and posted to
\* uploadlargefile.do; upload_large_file re-raises whatever fails
UploadLargeFile ==
    /\ pc = "upload_large_file"
    /\ uploaded < Len(artifacts)
    /\ \/ SubmitEnds("OSError") /\ UNCHANGED <<requests, uploaded>>
       \/ \E resp \in PlainAnswers :
            LET r == upload_large_file(resp) IN
            /\ Send("uploadlargefile.do", artifacts[uploaded + 1].name, resp, r)
            /\ IF r.exc # NoExc THEN SubmitEnds(r.exc) /\ UNCHANGED uploaded
               ELSE IF r.val = "False"
                 THEN SubmitEnds("False") /\ UNCHANGED uploaded
               ELSE /\ uploaded' = uploaded + 1
                    /\ pc' = IF uploaded + 1 = Len(artifacts)
                             THEN "begin_prescan" ELSE "upload_large_file"
                    /\ UNCHANGED sa_result
    /\ UNCHANGED <<mainvars, entry, upload_api, results_api, sandbox_api, artifacts,
                   sb_answer, cc_answer, cc_result>>
    /\ UNCHANGED call

\* submit_artifacts that cancels the build when the prescan did not start
BeginPrescan_rolls_back ==
    /\ pc = "begin_prescan"
    /\ \E resp \in PlainAnswers :
        LET r == begin_prescan(resp) IN
        IF r = Ret("True")
        THEN Send("beginprescan.do", "", resp, r) /\ SubmitEnds(r.val)
        ELSE /\ requests' =
                  requests
                  \o <<Req("beginprescan.do", SandboxParam, "", resp, r),
                       Req("deletebuild.do", SandboxParam, "", PlainDoc,
                           cancel_build(PlainDoc))>>
             /\ SubmitEnds(Outcome(r))
    /\ UNCHANGED <<mainvars, entry, upload_api, results_api, sandbox_api, artifacts,
                   uploaded, sb_answer, cc_answer, cc_result>>
    /\ UNCHANGED call

\* submit_artifacts, lines 355-362
BeginPrescan ==
    /\ pc = "begin_prescan"
    /\ \E resp \in PlainAnswers :
        LET r == begin_prescan(resp) IN
        /\ Send("beginprescan.do", "", resp, r)
        /\ IF r.exc # NoExc THEN SubmitEnds(r.exc) ELSE SubmitEnds(r.val)
    /\ UNCHANGED <<mainvars, entry, upload_api, results_api, sandbox_api, artifacts,
                   uploaded, sb_answer, cc_answer, cc_result>>
    /\ UNCHANGED call

\* check_compliance
CheckCompliance ==
    /\ pc = "check_compliance"
    /\ \E resp \in AppBuildsAnswers :
        LET r == check_compliance(resp, results_api.app_id,
                                  results_api.ignore_compliance_status) IN
        /\ requests' = Append(requests, Req("getappbuilds.do", NoneVal, "", resp, r))
        /\ cc_answer' = resp
        /\ cc_result' = Outcome(r)
    /\ pc' = IF entry = "main" THEN "main:after_check_compliance" ELSE "done"
    /\ UNCHANGED <<mainvars, entry, upload_api, results_api, sandbox_api, artifacts,
                   uploaded, sa_result, sb_answer>>
    /\ UNCHANGED call


\* ------------------------------------------------------------------------
\* Configuration values and dicts
\* ------------------------------------------------------------------------
\* A Python value: its type, its text and, for a list, its elements; a URL
\* string carries what urlparse makes of it
Val(t, s, l) == [t |-> t, s |-> s, l |-> l, url |-> <<>>]
None == Val("NoneType", "", <<>>)
Str(s) == Val("str", s, <<>>)
IntVal(s) == Val("int", s, <<>>)
Bool(b) == Val("bool", IF b THEN "True" ELSE "False", <<>>)
PathVal(s) == Val("Path", s, <<>>)
List(l) == Val("list", "", l)
\* A dict: for each of its items the types of the key and of the value,
\* "str:str" for a string under a string
DictVal(items) == Val("dict", "", items)
\* scheme, netloc host (does it match the host part of the pattern of
\* is_valid_netloc), the digits of the port and the path
Url(s, scheme, host, host_ok, port, path) ==
    [t |-> "str", s |-> s, l |-> <<>>,
     url |-> <<[scheme |-> scheme, host |-> host, host_ok |-> host_ok,
                port |-> port, path |-> path]>>]

\* A dict: a function from its keys
EmptyDict == [k \in {} |-> None]
DictUpdate(d, e) ==
    [k \in DOMAIN d \cup DOMAIN e |-> IF k \in DOMAIN e THEN e[k] ELSE d[k]]
DictSet(d, key, value) ==
    [k \in DOMAIN d \cup {key} |-> IF k = key THEN value ELSE d[k]]
DictDel(d, key) == [k \in DOMAIN d \ {key} |-> d[k]]

\* The strings of the model that the validators measure or parse
KEY_ID == "0123456789abcdef0123456789ABCDEF"
KEY_ID_ENV == "ffffffffffffffffffffffffffffffff"
KEY_ID_FILE == "aaaaaaaaaaaaaaaaaaaaaaaaaaaaaaaa"
KEY_ID_BAD == "0123456789abcdef"
KEY_ID_LONG == "0123456789abcdef0123456789abcdef0"
KEY_ID_NOT_HEX == "0123456789abcdef0123456789abcdeg"
KEY_ID_PREFIXED == "0x0123456789abcdef0123456789abcd"
KEY_ID_SIGNED == "+0123456789abcdef0123456789abcde"
KEY_ID_UNDERSCORED == "0123456789abcdef_0123456789abcde"
KEY_ID_PADDED == " 0123456789abcdef0123456789abcde"
KEY_SECRET ==
    "0123456789abcdef0123456789abcdef0123456789abcdef0123456789abcdef0123456789abcdef0123456789abcdef0123456789abcdef0123456789abcdef"
KEY_SECRET_BAD == "not-a-secret"
KEY_SECRET_SHORT ==
    "0123456789abcdef0123456789abcdef0123456789abcdef0123456789abcdef0123456789abcdef0123456789abcdef0123456789abcdef0123456789abcde"
KEY_SECRET_PREFIXED ==
    "0X0123456789abcdef0123456789abcdef0123456789abcdef0123456789abcdef0123456789abcdef0123456789abcdef0123456789abcdef0123456789abcd"
KEY_SECRET_PADDED ==
    "0123456789abcdef0123456789abcdef0123456789abcdef0123456789abcdef0123456789abcdef0123456789abcdef0123456789abcdef0123456789abcde "

\* The characters of a string, as int(value, 16) reads it: leading
\* whitespace, a sign, the prefix 0x or 0X, hexadecimal digits, single
\* underscores between digits, any other character, trailing whitespace
Chars(lead, sign, prefix, digits, underscores, other, trail) ==
    [lead |-> lead, sign |-> sign, prefix |-> prefix, digits |-> digits,
     underscores |-> underscores, other |-> other, trail |-> trail]

\* The characters of the strings of the model
Shape(s) ==
    CASE s = KEY_ID -> Chars(0, 0, 0, 32, 0, 0, 0)
      [] s = KEY_ID_ENV -> Chars(0, 0, 0, 32, 0, 0, 0)
      [] s = KEY_ID_FILE -> Chars(0, 0, 0, 32, 0, 0, 0)
      [] s = KEY_ID_BAD -> Chars(0, 0, 0, 16, 0, 0, 0)
      [] s = KEY_ID_LONG -> Chars(0, 0, 0, 33, 0, 0, 0)
      [] s = KEY_ID_NOT_HEX -> Chars(0, 0, 0, 31, 0, 1, 0)
      [] s = KEY_ID_PREFIXED -> Chars(0, 0, 2, 30, 0, 0, 0)
      [] s = KEY_ID_SIGNED -> Chars(0, 1, 0, 31, 0, 0, 0)
      [] s = KEY_ID_UNDERSCORED -> Chars(0, 0, 0, 31, 1, 0, 0)
      [] s = KEY_ID_PADDED -> Chars(1, 0, 0, 31, 0, 0, 0)
      [] s = KEY_SECRET -> Chars(0, 0, 0, 128, 0, 0, 0)
      [] s = KEY_SECRET_BAD -> Chars(0, 0, 0, 4, 0, 8, 0)
      [] s = KEY_SECRET_SHORT -> Chars(0, 0, 0, 127, 0, 0, 0)
      [] s = KEY_SECRET_PREFIXED -> Chars(0, 0, 2, 126, 0, 0, 0)
      [] s = KEY_SECRET_PADDED -> Chars(0, 0, 0, 127, 0, 0, 1)
      [] s = "31337" -> Chars(0, 0, 0, 5, 0, 0, 0)
      [] s = "1337" -> Chars(0, 0, 0, 4, 0, 0, 0)
      [] s = "111" -> Chars(0, 0, 0, 3, 0, 0, 0)
      [] s = "222" -> Chars(0, 0, 0, 3, 0, 0, 0)
      [] s = " 42" -> Chars(1, 0, 0, 2, 0, 0, 0)
      [] s = "abc" -> Chars(0, 0, 0, 3, 0, 0, 0)
      [] s = "v1.2.3" -> Chars(0, 0, 0, 3, 0, 3, 0)
      [] s = "2020-01-01_00-00-00" -> Chars(0, 0, 0, 14, 1, 4, 0)
      [] s = "Project Security" -> Chars(0, 0, 0, 4, 0, 12, 0)
      [] s = "a<b" -> Chars(0, 0, 0, 2, 0, 1, 0)
      [] s = "DEBUG" -> Chars(0, 0, 0, 3, 0, 2, 0)
      [] s = "debug" -> Chars(0, 0, 0, 3, 0, 2, 0)
      [] s = "get" -> Chars(0, 0, 0, 1, 0, 2, 0)
      [] s = "GET" -> Chars(0, 0, 0, 1, 0, 2, 0)
      [] s = "submit_artifacts" -> Chars(0, 0, 0, 5, 1, 10, 0)
      [] s = "TestApp" -> Chars(0, 0, 0, 2, 0, 5, 0)
      [] s = "dev" -> Chars(0, 0, 0, 2, 0, 1, 0)
      [] s = "qa" -> Chars(0, 0, 0, 1, 0, 1, 0)
      [] s = "Other" -> Chars(0, 0, 0, 1, 0, 4, 0)
      [] s = "out" -> Chars(0, 0, 0, 0, 0, 3, 0)
      [] s = "info" -> Chars(0, 0, 0, 1, 0, 3, 0)
      [] s = "warn" -> Chars(0, 0, 0, 1, 0, 3, 0)
      [] s = "verbose" -> Chars(0, 0, 0, 3, 0, 4, 0)
      [] s = "WARNING" -> Chars(0, 0, 0, 1, 0, 6, 0)
      [] s = "getappbuilds.do" -> Chars(0, 0, 0, 5, 0, 10, 0)
      [] OTHER -> Chars(0, 0, 0, 0, 0, 0, 0)

\* len(str(value)) is 32, is 128
Len32 ==
    {KEY_ID, KEY_ID_ENV, KEY_ID_FILE, KEY_ID_NOT_HEX, KEY_ID_PREFIXED,
     KEY_ID_SIGNED, KEY_ID_UNDERSCORED, KEY_ID_PADDED}
Len128 ==
    {KEY_SECRET, KEY_SECRET_PREFIXED, KEY_SECRET_PADDED}
\* The strings int(value, 16) succeeds on: whitespace around the digits, a
\* sign, the prefix and underscores between the digits are accepted
HexStrings ==
    {KEY_ID, KEY_ID_ENV, KEY_ID_FILE, KEY_ID_BAD, KEY_ID_LONG,
     KEY_ID_PREFIXED, KEY_ID_SIGNED, KEY_ID_UNDERSCORED, KEY_ID_PADDED,
     KEY_SECRET, KEY_SECRET_SHORT, KEY_SECRET_PREFIXED, KEY_SECRET_PADDED,
     "31337", "1337", "111", "222", " 42", "abc"}

\* len(str(value)) == n, for the lengths the rules ask for
HasLen(s, n) ==
    CASE n = 32 -> s \in Len32
      [] n = 128 -> s \in Len128
      [] OTHER -> FALSE

\* int(value, 16) succeeds on the string
ParsesAsHex(s) == s \in HexStrings

\* re.fullmatch("[a-zA-Z0-9-._~]+", value): of the strings of the model the
\* pattern is tried on, the ones it does not match
NotUnreserved ==
    {KEY_ID_SIGNED, KEY_ID_PADDED, KEY_SECRET_PADDED, "", " 42",
     "Project Security", "a<b"}
IsUnreserved(s) == s \notin NotUnreserved

\* The sandbox_name pattern of utils.is_valid_attribute: of the strings of
\* the model it is tried on, the ones it does not match
NotSandboxName == {"", "a<b"}
IsSandboxName(s) == s \notin NotSandboxName

ALLOWED_LOG_LEVELS == {"DEBUG", "INFO", "WARNING", "ERROR", "CRITICAL"}
SUPPORTED_APIS == {"results", "upload", "sandbox"}
SUPPORTED_VERBS == {"get", "post"}

\* hasattr(logging, name.upper()): the level names and the other
\* upper-case names of the logging module the model uses
upper(s) ==
    CASE s = "warning" -> "WARNING"
      [] s = "info" -> "INFO"
      [] s = "warn" -> "WARN"
      [] s = "verbose" -> "VERBOSE"
      [] OTHER -> s
LoggingAttributes == ALLOWED_LOG_LEVELS \cup {"WARN", "FATAL", "NOTSET"}

\* The port alternatives of the pattern in utils.is_valid_netloc: up to
\* four digits, or five digits from 10000 to 65535
utils_port_ok(port) ==
    \/ port.digits \in 1..4
    \/ port.digits = 5 /\ port.value \in 10000..65535
NoPort == [digits |-> 0, value |-> 0]
\* A port that is not a number: reading parsed_url.port raises
BadPort == [digits |-> 0, value |-> -1]
\* parsed_url.port raises ValueError: the port is not a number or is above
\* 65535
PortRaises(port) == port = BadPort \/ port.value > 65535

\* A label of a host name: its length and what it is made of: "name"
\* (lower-case letters, digits and, inside, hyphens and underscores),
\* "number" (digits only), "upper" (a name with an upper-case letter),
\* "edge" (a name that starts or ends with a hyphen or an underscore) or
\* "other"
Label(len, kind) == [len |-> len, kind |-> kind]

\* The host part of the pattern of is_valid_netloc on the labels of a host:
\* one or more labels of 1 to 63 characters, each followed by a dot, and a
\* last label of 2 to 63 characters
HostMatches(labels) ==
    /\ Len(labels) >= 2
    /\ \A i \in 1..Len(labels) :
          /\ labels[i].kind \in {"name", "number"}
          /\ labels[i].len \in 1..63
    /\ labels[Len(labels)].len >= 2

\* utils.is_valid_netloc
utils_is_valid_netloc(u) ==
    u.host_ok /\ (u.port = NoPort \/ utils_port_ok(u.port))


\* protocol_is_insecure
protocol_is_insecure(protocol) == casefold(protocol) # "https"

\* str.endswith("/") on the paths of the model
EndsWithSlash(path) == path \in {"/", "/api/"}

\* The base_url rule with the ValueError of the port handled: the value is
\* invalid
utils_is_valid_base_url_returns_false(u) ==
    IF /\ ~PortRaises(u.port)
       /\ ~protocol_is_insecure(u.scheme)
       /\ ~(u.host = "" /\ u.port = NoPort)
       /\ utils_is_valid_netloc(u)
       /\ u.path \notin {"/", ""}
       /\ EndsWithSlash(u.path)
    THEN Ret("True")
    ELSE Ret("False")

\* utils.is_valid_attribute, key base_url, on what urlparse made of a string
utils_is_valid_base_url(u) ==
    IF PortRaises(u.port) THEN Raise("ValueError")
    ELSE IF /\ ~protocol_is_insecure(u.scheme)
            /\ ~(u.host = "" /\ u.port = NoPort)
            /\ utils_is_valid_netloc(u)
            /\ u.path \notin {"/", ""}
            /\ EndsWithSlash(u.path)
         THEN Ret("True")
    ELSE Ret("False")

BoolStr(b) == IF b THEN "True" ELSE "False"

\* utils.is_valid_attribute: Ret("True"), Ret("False") or the exception
\* that escapes it
utils_is_valid_attribute(key, value) ==
    CASE key = "base_url" ->
            IF value.t # "str" THEN Raise("AttributeError")
            ELSE IF value.url = <<>> THEN Ret("False")
            ELSE utils_is_valid_base_url(value.url[1])
      [] key = "version" ->
            Ret(BoolStr(/\ value.t = "dict"
                        /\ \A i \in 1..Len(value.l) :
                               value.l[i] = "str:str"))
      [] key = "endpoint" ->
            Ret(BoolStr(value.t = "str" /\ IsUnreserved(value.s)))
      [] key = "app_id" ->
            Ret(BoolStr(value.t = "str" /\ ParsesAsInt(value.s)))
      [] key = "build_dir" -> Ret(BoolStr(value.t = "Path"))
      [] key = "build_id" ->
            Ret(BoolStr(value.t = "str" /\ IsUnreserved(value.s)))
      [] key = "sandbox_id" ->
            Ret(BoolStr(\/ value.t = "NoneType"
                        \/ value.t = "str" /\ ParsesAsInt(value.s)))
      [] key \in {"scan_all_nonfatal_top_level_modules", "auto_scan",
                  "ignore_compliance_status"} ->
            Ret(BoolStr(value.t = "bool"))
      [] key = "sandbox_name" ->
            Ret(BoolStr(value.t = "str" /\ IsSandboxName(value.s)))
      [] key = "api_key_id" ->
            Ret(BoolStr(/\ value.t = "str"
                        /\ HasLen(value.s, 32)
                        /\ ParsesAsHex(value.s)))
      [] key = "api_key_secret" ->
            Ret(BoolStr(/\ value.t = "str"
                        /\ HasLen(value.s, 128)
                        /\ ParsesAsHex(value.s)))
      [] key = "loglevel" ->
            IF value.t \in {"list", "dict"} THEN Raise("TypeError")
            ELSE Ret(BoolStr(value.t = "str" /\ value.s \in ALLOWED_LOG_LEVELS))
      [] key = "workflow" ->
            IF value.t \in {"int", "bool", "NoneType", "Path"}
            THEN Raise("TypeError")
            ELSE Ret(BoolStr(/\ value.t = "list"
                             /\ \A i \in 1..Len(value.l) :
                                    value.l[i] \in SUPPORTED_WORKFLOWS))
      [] key = "verb" ->
            IF value.t \in {"list", "dict"} THEN Raise("TypeError")
            ELSE Ret(BoolStr(value.t = "str" /\ value.s \in SUPPORTED_VERBS))
      [] OTHER -> Ret("True")

\* veracode/constants.py, the attribute sets
API_ATTRIBUTES ==
    [upload |-> {"base_url", "version", "app_name", "build_dir", "build_id",
                 "sandbox_id", "scan_all_nonfatal_top_level_modules",
                 "auto_scan"},
     results |-> {"base_url", "version", "app_name",
                  "ignore_compliance_status"},
     sandbox |-> {"base_url", "version", "app_name", "build_id",
                  "sandbox_id", "sandbox_name"}]
COMMON_API_ATTRIBUTES ==
    API_ATTRIBUTES.upload \cap API_ATTRIBUTES.results \cap API_ATTRIBUTES.sandbox
ONLY_UPLOAD_ATTRIBUTES ==
    API_ATTRIBUTES.upload \ (API_ATTRIBUTES.results \cup API_ATTRIBUTES.sandbox)
ONLY_RESULTS_ATTRIBUTES ==
    API_ATTRIBUTES.results \ (API_ATTRIBUTES.upload \cup API_ATTRIBUTES.sandbox)
REQUIRED_CONFIG_ATTRIBUTES_API == {"app_name"}
REQUIRED_CONFIG_ATTRIBUTES_TOP == {"loglevel", "workflow", "config_file"}
LIMITED_OPTIONS_SET == {"loglevel", "workflow", "config_file"}
ALL_OPTIONS_SET == LIMITED_OPTIONS_SET \cup {"api_key_id", "api_key_secret"}
WORKFLOW_TO_API_MAP ==
    [submit_artifacts |-> {"upload", "sandbox"},
     check_compliance |-> {"results"}]


\* ------------------------------------------------------------------------
\* veracode/config.py.  A config is its top-level dict without "apis" and
\* the dict under "apis" (api -> dict); a config without the "apis" key has
\* no api in it.
\* ------------------------------------------------------------------------
Config(top, apis) == [top |-> top, apis |-> apis]
NoApis == [a \in {} |-> EmptyDict]
EmptyConfig == Config(EmptyDict, NoApis)

\* add_apis_to_config
add_apis_to_config(config) ==
    Config(config.top,
           [a \in DOMAIN config.apis \cup SUPPORTED_APIS |->
               IF a \in DOMAIN config.apis THEN config.apis[a] ELSE EmptyDict])

\* remove_nones on a dict of values
remove_nones(d) == [k \in {x \in DOMAIN d : d[x] # None} |-> d[k]]

\* remove_empty_dicts on the dict under "apis"
remove_empty_dicts(apis) ==
    [a \in {x \in DOMAIN apis : apis[x] # EmptyDict} |-> apis[a]]

\* filter_config that drops the empty dicts first, then the None values,
\* and does not repeat
filter_config_one_pass(config) ==
    Config(remove_nones(config.top),
           [a \in DOMAIN remove_empty_dicts(config.apis) |->
               remove_nones(config.apis[a])])

\* filter_config: on a config of this shape the second round changes
\* nothing
filter_config(config) ==
    Config(remove_nones(config.top),
           remove_empty_dicts([a \in DOMAIN config.apis |->
                                  remove_nones(config.apis[a])]))

\* normalize_config, lines 182-191: a common attribute at the top level is
\* copied into every supported api and removed from the top level
distribute_common(config) ==
    LET common == COMMON_API_ATTRIBUTES \cap DOMAIN config.top IN
    Config([k \in DOMAIN config.top \ common |-> config.top[k]],
           [a \in DOMAIN config.apis |->
               IF a \in SUPPORTED_APIS
               THEN DictUpdate(config.apis[a],
                               [k \in common |-> config.top[k]])
               ELSE config.apis[a]])

\* normalize_config, lines 196-201
loglevel_unknown(config) ==
    /\ "loglevel" \in DOMAIN config.top
    /\ config.top["loglevel"].t = "str"
    /\ upper(config.top["loglevel"].s) \notin LoggingAttributes

normalize_loglevel(config) ==
    IF "loglevel" \in DOMAIN config.top /\ config.top["loglevel"].t = "str"
    THEN Config(DictSet(config.top, "loglevel",
                        Str(upper(config.top["loglevel"].s))),
                config.apis)
    ELSE config

\* normalize_config, lines 205-210: Path(build_dir).absolute()
absolute(s) ==
    CASE s = "/build/" -> "/build"
      [] s = "out" -> "/cwd/out"
      [] OTHER -> s
normalize_build_dir(config) ==
    IF /\ "build_dir" \in DOMAIN config.apis["upload"]
       /\ config.apis["upload"]["build_dir"].t = "str"
    THEN Config(config.top,
                [config.apis EXCEPT !["upload"] =
                    DictSet(@, "build_dir",
                            PathVal(absolute(@["build_dir"].s)))])
    ELSE config

\* The results of the validator over the values of the supported apis
ApiChecks(config) ==
    {utils_is_valid_attribute(k, config.apis[a][k]) :
        <<a, k>> \in {p \in (DOMAIN config.apis \cap SUPPORTED_APIS)
                              \X UNION {DOMAIN config.apis[x] :
                                          x \in DOMAIN config.apis} :
                        p[2] \in DOMAIN config.apis[p[1]]}}

\* The exception a set of validator results ends with: the validator's own
\* exception, or ValueError for an invalid value; NoExc when all are valid.
\* The order of a dict decides between two failures; the first in the
\* order of the exception names stands for it.
ChecksFail(checks) ==
    IF \E c \in checks : c.exc # NoExc
    THEN (CHOOSE e \in {c.exc : c \in checks} \ {NoExc} : TRUE)
    ELSE IF Ret("False") \in checks THEN "ValueError"
    ELSE NoExc

\* normalize_config
normalize_config(config) ==
    LET c1 == distribute_common(add_apis_to_config(config)) IN
    IF loglevel_unknown(c1) THEN [exc |-> "AttributeError", val |-> EmptyConfig]
    ELSE LET c2 == filter_config(normalize_build_dir(normalize_loglevel(c1))) IN
         IF ChecksFail(ApiChecks(c2)) # NoExc
         THEN [exc |-> ChecksFail(ApiChecks(c2)), val |-> EmptyConfig]
         ELSE [exc |-> NoExc, val |-> c2]


\* get_args_config that renames the two disable flags and keeps their values
invert_attributes_renames_only(parsed_args) ==
    LET inverted == [auto_scan |-> "disable_auto_scan",
                     scan_all_nonfatal_top_level_modules |->
                         "disable_scan_nonfatal_modules"]
        present == {k \in DOMAIN inverted : inverted[k] \in DOMAIN parsed_args}
        removed == {inverted[k] : k \in present}
    IN [k \in (DOMAIN parsed_args \ removed) \cup present |->
           IF k \in present THEN parsed_args[inverted[k]] ELSE parsed_args[k]]

\* get_args_config, lines 237-246: the two disable flags are inverted and
\* renamed
invert_attributes(parsed_args) ==
    LET inverted == [auto_scan |-> "disable_auto_scan",
                     scan_all_nonfatal_top_level_modules |->
                         "disable_scan_nonfatal_modules"]
        present == {k \in DOMAIN inverted : inverted[k] \in DOMAIN parsed_args}
        removed == {inverted[k] : k \in present}
    IN [k \in (DOMAIN parsed_args \ removed) \cup present |->
           IF k \in present
           THEN Bool(parsed_args[inverted[k]] # Bool(TRUE))
           ELSE parsed_args[k]]

\* get_args_config
get_args_config(parsed_args) ==
    LET args == invert_attributes(parsed_args)
        pick(S) == [k \in DOMAIN args \cap S |-> args[k]]
    IN normalize_config(
        Config(pick(DOMAIN args \ (ONLY_UPLOAD_ATTRIBUTES
                                     \cup ONLY_RESULTS_ATTRIBUTES)),
               [a \in SUPPORTED_APIS |->
                   CASE a = "upload" -> pick(ONLY_UPLOAD_ATTRIBUTES)
                     [] a = "results" -> pick(ONLY_RESULTS_ATTRIBUTES)
                     [] OTHER -> EmptyDict]))

\* What reading the config file comes to: the file is missing or its suffix
\* is not allowed (both give {}), it cannot be read, it is not YAML, it is
\* empty (safe_load gives None), or it holds a mapping
FileRead(kind, doc) == [kind |-> kind, doc |-> doc]

\* get_file_config on a Path: parse_file_config, then normalize_config
get_file_config(file) ==
    CASE file.kind \in {"missing", "suffix"} -> normalize_config(EmptyConfig)
      [] file.kind = "unreadable" ->
            [exc |-> "PermissionError", val |-> EmptyConfig]
      [] file.kind = "not_yaml" -> [exc |-> "YAMLError", val |-> EmptyConfig]
      [] file.kind = "empty" -> [exc |-> "AttributeError", val |-> EmptyConfig]
      [] OTHER -> normalize_config(file.doc)

\* get_default_config
get_default_config ==
    Config([workflow |-> List(DEFAULT_WORKFLOW), loglevel |-> Str("WARNING")],
           [a \in SUPPORTED_APIS |-> EmptyDict])

\* get_env_config on os.environ
get_env_config(env) ==
    [api_key_id |->
        IF "VERACODE_API_KEY_ID" \in DOMAIN env
        THEN Str(env["VERACODE_API_KEY_ID"]) ELSE None,
     api_key_secret |->
        IF "VERACODE_API_KEY_SECRET" \in DOMAIN env
        THEN Str(env["VERACODE_API_KEY_SECRET"]) ELSE None]

\* The keys checked when only the options a file may set are validated
TopOrder_limited == <<"workflow", "loglevel", "config_file">>

\* The keys of the effective config in the order they were inserted
TopOrder ==
    <<"workflow", "loglevel", "api_key_id", "api_key_secret", "config_file">>

\* is_valid_non_api_config, lines 334-340: the first key that is invalid
\* or whose validation raises decides
RECURSIVE first_invalid(_, _)
first_invalid(top, order) ==
    IF order = <<>> THEN NoExc
    ELSE IF Head(order) \notin DOMAIN top THEN first_invalid(top, Tail(order))
    ELSE LET c == utils_is_valid_attribute(Head(order), top[Head(order)]) IN
         IF c.exc # NoExc THEN c.exc
         ELSE IF c.val = "False" THEN "ValueError"
         ELSE first_invalid(top, Tail(order))

\* is_valid_non_api_config, as get_config uses it: NoExc when valid,
\* ValueError when not, or the exception of the validator
is_valid_non_api_config(config) ==
    IF first_invalid(config.top, TopOrder) # NoExc
    THEN first_invalid(config.top, TopOrder)
    ELSE IF REQUIRED_CONFIG_ATTRIBUTES_TOP \subseteq DOMAIN config.top
         THEN NoExc ELSE "ValueError"

\* The apis of the steps of a workflow
workflow_apis(workflow) ==
    UNION {WORKFLOW_TO_API_MAP[workflow[i]] \cap SUPPORTED_APIS :
             i \in 1..Len(workflow)}

\* is_valid_api_config, as get_config uses it
is_valid_api_config(config) ==
    LET used == workflow_apis(config.top["workflow"].l)
        checks == {utils_is_valid_attribute(k, config.apis[a][k]) :
                     <<a, k>> \in {p \in used \X UNION {DOMAIN config.apis[x] :
                                                         x \in used} :
                                     p[2] \in DOMAIN config.apis[p[1]]}}
    IN IF \E a \in used :
            ~(REQUIRED_CONFIG_ATTRIBUTES_API \subseteq DOMAIN config.apis[a])
       THEN "ValueError"
       ELSE ChecksFail(checks)

\* get_config that applies every option of the file, the two secrets
\* included, after the environment
merge_configs_file_wins(default_config, file_config, env_config, args_config) ==
    LET apis1 == [a \in SUPPORTED_APIS |->
                    IF a \in DOMAIN file_config.apis
                    THEN DictUpdate(default_config.apis[a], file_config.apis[a])
                    ELSE default_config.apis[a]]
        top1 == DictUpdate(default_config.top, env_config)
        top2 == DictUpdate(top1,
                    [k \in ALL_OPTIONS_SET \cap DOMAIN file_config.top |->
                        file_config.top[k]])
        apis2 == [a \in SUPPORTED_APIS |->
                    IF a \in DOMAIN args_config.apis
                    THEN DictUpdate(apis1[a], args_config.apis[a])
                    ELSE apis1[a]]
        top3 == DictUpdate(top2,
                    [k \in ALL_OPTIONS_SET \cap DOMAIN args_config.top |->
                        args_config.top[k]])
    IN Config(top3, apis2)

\* get_config, lines 389-412: defaults, then the file, then the
\* environment, then the arguments
merge_configs(default_config, file_config, env_config, args_config) ==
    LET apis1 == [a \in SUPPORTED_APIS |->
                    IF a \in DOMAIN file_config.apis
                    THEN DictUpdate(default_config.apis[a], file_config.apis[a])
                    ELSE default_config.apis[a]]
        top1 == DictUpdate(default_config.top,
                    [k \in LIMITED_OPTIONS_SET \cap DOMAIN file_config.top |->
                        file_config.top[k]])
        top2 == DictUpdate(top1, env_config)
        apis2 == [a \in SUPPORTED_APIS |->
                    IF a \in DOMAIN args_config.apis
                    THEN DictUpdate(apis1[a], args_config.apis[a])
                    ELSE apis1[a]]
        top3 == DictUpdate(top2,
                    [k \in ALL_OPTIONS_SET \cap DOMAIN args_config.top |->
                        args_config.top[k]])
    IN Config(top3, apis2)

\* get_config: the effective config, or the exception it raises
get_config(parsed_args, file, env) ==
    LET args_config == get_args_config(parsed_args) IN
    IF args_config.exc # NoExc THEN args_config
    ELSE IF "config_file" \notin DOMAIN args_config.val.top
         THEN [exc |-> "KeyError", val |-> EmptyConfig]
    ELSE LET file_config == get_file_config(file) IN
    IF file_config.exc # NoExc THEN file_config
    ELSE LET config == merge_configs(get_default_config, file_config.val,
                                     get_env_config(env), args_config.val)
         IN IF is_valid_non_api_config(config) # NoExc
            THEN [exc |-> is_valid_non_api_config(config), val |-> EmptyConfig]
            ELSE IF is_valid_api_config(config) # NoExc
            THEN [exc |-> is_valid_api_config(config), val |-> EmptyConfig]
            ELSE [exc |-> NoExc, val |-> config]


\* ------------------------------------------------------------------------
\* The inputs of one run of main
\* ------------------------------------------------------------------------
MaxWorkflow == 2

\* The step names the command line and the file can give
StepNames == SUPPORTED_WORKFLOWS \cup {"scan"}
Workflows == SeqsUpTo(StepNames, MaxWorkflow)

\* vars(parser.parse_args()): every option has a key, None when not given
ParsedArgs(creds, workflow, loglevel, ignore) ==
    [api_key_id |-> creds[1],
     api_key_secret |-> creds[2],
     app_id |-> Str("31337"),
     build_dir |-> None,
     build_id |-> None,
     config_file |-> PathVal("/cwd/easy_sast.yml"),
     disable_auto_scan |-> Bool(FALSE),
     disable_scan_nonfatal_modules |-> Bool(FALSE),
     ignore_compliance_status |-> Bool(ignore),
     sandbox_name |-> None,
     workflow |-> workflow,
     loglevel |-> loglevel]

ArgCreds ==
    {<<None, None>>, <<Str(KEY_ID), Str(KEY_SECRET)>>,
     <<Str(KEY_ID_BAD), Str(KEY_SECRET)>>}
ArgWorkflows == {None} \cup {List(w) : w \in Workflows \ {<<>>}}
ArgLoglevels == {None}
AllParsedArgs ==
    {ParsedArgs(c, w, l, i) :
        c \in ArgCreds, w \in ArgWorkflows, l \in ArgLoglevels, i \in BOOLEAN}

\* os.environ when main starts
Environs ==
    {EmptyDict,
     [VERACODE_API_KEY_ID |-> KEY_ID_ENV, VERACODE_API_KEY_SECRET |-> KEY_SECRET],
     [VERACODE_API_KEY_ID |-> KEY_ID_ENV, VERACODE_API_KEY_SECRET |-> KEY_SECRET_BAD]}

\* The YAML documents of the model
ApiDoc(app_id, app_name) ==
    [k \in {"app_id", "app_name"} |-> IF k = "app_id" THEN app_id ELSE app_name]
FullApis == [a \in SUPPORTED_APIS |-> ApiDoc(Str("31337"), Str("TestApp"))]
OnlyAppIds == [a \in SUPPORTED_APIS |-> [app_id |-> Str("31337")]]
HighPortUrl ==
    Url("https://analysiscenter.veracode.com:65535/api/", "https",
        "analysiscenter.veracode.com", TRUE, [digits |-> 5, value |-> 65535],
        "/api/")
Documents ==
    {Config(EmptyDict, FullApis),
     Config([app_name |-> Str("TestApp"), loglevel |-> Str("info"),
             workflow |-> List(<<"check_compliance">>)], OnlyAppIds),
     Config(EmptyDict,
            [FullApis EXCEPT !["results"] = [app_name |-> Str("TestApp")]]),
     Config(EmptyDict,
            [FullApis EXCEPT !["upload"] = [app_name |-> Str("TestApp")]]),
     Config(EmptyDict, OnlyAppIds),
     Config([loglevel |-> Str("verbose")], FullApis),
     Config([loglevel |-> IntVal("10")], FullApis),
     Config([workflow |-> IntVal("5")], FullApis),
     Config([workflow |-> Str("submit_artifacts")], FullApis),
     Config([workflow |-> List(<<>>)], FullApis),
     Config(EmptyDict,
            [FullApis EXCEPT !["upload"] = ApiDoc(Str("abc"), Str("TestApp"))]),
     Config([base_url |-> HighPortUrl], FullApis)}
FileReads ==
    {FileRead(k, EmptyConfig) :
        k \in {"missing", "suffix", "unreadable", "not_yaml", "empty"}}
    \cup {FileRead("mapping", d) : d \in Documents}


\* ------------------------------------------------------------------------
\* veracode/api.py: the sessions
\* ------------------------------------------------------------------------
\* The port alternatives of the pattern in api.is_valid_netloc: its last
\* alternative holds two blanks and matches no port number
api_port_ok(port) ==
    \/ port.digits \in 1..4
    \/ port.digits = 5 /\ port.value \in 10000..65529

\* api.is_valid_netloc
api_is_valid_netloc(u) ==
    u.host_ok /\ (u.port = NoPort \/ api_port_ok(u.port))

\* api.is_valid_attribute, key base_url
api_is_valid_base_url(u) ==
    IF PortRaises(u.port) THEN Raise("ValueError")
    ELSE IF /\ ~protocol_is_insecure(u.scheme)
            /\ ~(u.host = "" /\ u.port = NoPort)
            /\ api_is_valid_netloc(u)
            /\ u.path \notin {"/", ""}
            /\ EndsWithSlash(u.path)
         THEN Ret("True")
    ELSE Ret("False")

\* api.is_valid_attribute: it has no rule for sandbox_id and sandbox_name,
\* its own netloc pattern, and otherwise the rules of the one in utils
api_is_valid_attribute(key, value) ==
    CASE key \in {"sandbox_id", "sandbox_name"} -> Ret("True")
      [] key = "base_url" ->
            IF value.t # "str" THEN Raise("AttributeError")
            ELSE IF value.url = <<>> THEN Ret("False")
            ELSE api_is_valid_base_url(value.url[1])
      [] OTHER -> utils_is_valid_attribute(key, value)

\* VeracodeXMLAPI._validate: the exception of a property setter
_validate(key, value) ==
    LET c == api_is_valid_attribute(key, value) IN
    IF c.exc # NoExc THEN c.exc
    ELSE IF c.val = "False" THEN "ValueError"
    ELSE NoExc

\* The properties of the session classes
ResultsProperties == {"base_url", "version", "app_id", "ignore_compliance_status"}
UploadProperties ==
    {"base_url", "version", "app_id", "build_dir", "build_id",
     "scan_all_nonfatal_top_level_modules", "auto_scan"}

\* The sandbox_id property of the Upload session
sandbox_id_setter(value) ==
    IF utils_is_valid_attribute("sandbox_id", value).val = "True"
    THEN NoExc ELSE "ValueError"

\* apply_config: the exception of the first setter that rejects its value,
\* NoExc when every key was set
apply_config(properties, api_config) ==
    LET failed == {_validate(k, api_config[k]) :
                     k \in DOMAIN api_config \cap properties} \ {NoExc}
        sandbox == IF "sandbox_id" \in DOMAIN api_config
                      /\ "sandbox_id" \notin properties
                      /\ properties = UploadProperties
                   THEN {sandbox_id_setter(api_config["sandbox_id"])} \ {NoExc}
                   ELSE {}
    IN IF failed \cup sandbox = {} THEN NoExc
       ELSE CHOOSE e \in failed \cup sandbox : TRUE

\* The Results session main makes of a config: ResultsAPI(app_id=...) and
\* apply_config; exc is what escapes
make_results_api(config) ==
    LET c == add_apis_to_config(config).apis["results"] IN
    IF "app_id" \notin DOMAIN c THEN [exc |-> "KeyError", val |-> NoneVal]
    ELSE IF _validate("app_id", c["app_id"]) # NoExc
         THEN [exc |-> _validate("app_id", c["app_id"]), val |-> NoneVal]
    ELSE [exc |-> apply_config(ResultsProperties, c), val |-> c["app_id"].s]

\* The Upload session main makes of a config
make_upload_api(config) ==
    LET c == add_apis_to_config(config).apis["upload"] IN
    IF "app_id" \notin DOMAIN c THEN [exc |-> "KeyError", val |-> NoneVal]
    ELSE IF _validate("app_id", c["app_id"]) # NoExc
         THEN [exc |-> _validate("app_id", c["app_id"]), val |-> NoneVal]
    ELSE [exc |-> apply_config(UploadProperties, c), val |-> c["app_id"].s]


\* ------------------------------------------------------------------------
\* main.py
\* ------------------------------------------------------------------------
\* main ends: it returns, calls sys.exit(1), or an exception escapes it
MainEnds(how) == outcome' = how /\ pc' = "done"

\* The exit code of the process: 0 when main returns, 1 after sys.exit(1)
\* and 1 when an exception escapes main
ExitCode(how) == IF how = "return" THEN 0 ELSE 1

\* main, lines 39-47
GetConfig ==
    /\ pc = "main:get_config"
    /\ \E parsed_args \in AllParsedArgs, file \in FileReads :
        LET r == get_config(parsed_args, file, environ) IN
        IF r.exc = "ValueError"
          THEN MainEnds("sys.exit(1)") /\ UNCHANGED main_config
        ELSE IF r.exc # NoExc
          THEN MainEnds(r.exc) /\ UNCHANGED main_config
        ELSE /\ main_config' = r.val
             /\ pc' = "main:results_api"
             /\ UNCHANGED outcome
    /\ UNCHANGED <<entry, wfvars, environ, sessions, step>>
    /\ UNCHANGED call

\* main, lines 50-53 and 57-59
MakeResultsAPI ==
    /\ pc = "main:results_api"
    /\ LET r == make_results_api(main_config)
           c == main_config.apis["results"]
       IN IF r.exc = "TypeError"
            THEN MainEnds("sys.exit(1)") /\ UNCHANGED <<results_api, sessions>>
          ELSE IF r.exc # NoExc
            THEN MainEnds(r.exc) /\ UNCHANGED <<results_api, sessions>>
          ELSE /\ results_api' =
                    [app_id |-> r.val,
                     ignore_compliance_status |->
                        /\ "ignore_compliance_status" \in DOMAIN c
                        /\ c["ignore_compliance_status"] = Bool(TRUE)]
               /\ sessions' = sessions \cup {"results"}
               /\ pc' = "main:upload_api"
               /\ UNCHANGED outcome
    /\ UNCHANGED <<entry, upload_api, sandbox_api, requests, artifacts,
                   uploaded, sa_result, sb_answer, cc_answer, cc_result, environ,
                   main_config, step>>
    /\ UNCHANGED call

\* main, lines 54-59
MakeUploadAPI ==
    /\ pc = "main:upload_api"
    /\ LET r == make_upload_api(main_config)
           c == main_config.apis["upload"]
       IN IF r.exc = "TypeError"
            THEN MainEnds("sys.exit(1)") /\ UNCHANGED <<upload_api, sessions>>
          ELSE IF r.exc # NoExc
            THEN MainEnds(r.exc) /\ UNCHANGED <<upload_api, sessions>>
          ELSE /\ upload_api' =
                    [app_id |-> r.val,
                     sandbox_id |-> IF "sandbox_id" \in DOMAIN c
                                    THEN c["sandbox_id"].s ELSE NoneVal]
               /\ sessions' = sessions \cup {"upload"}
               /\ pc' = "main:workflow"
               /\ UNCHANGED outcome
    /\ UNCHANGED <<entry, results_api, sandbox_api, requests, artifacts,
                   uploaded, sa_result, sb_answer, cc_answer, cc_result, environ,
                   main_config, step>>
    /\ UNCHANGED call

\* configure_environment that leaves a variable alone once it is set
os_environ_after_keeps_set(api_key_id, api_key_secret) ==
    [VERACODE_API_KEY_ID |->
        IF "VERACODE_API_KEY_ID" \in DOMAIN environ
        THEN environ["VERACODE_API_KEY_ID"] ELSE api_key_id.s,
     VERACODE_API_KEY_SECRET |->
        IF "VERACODE_API_KEY_SECRET" \in DOMAIN environ
        THEN environ["VERACODE_API_KEY_SECRET"] ELSE api_key_secret.s]

\* configure_environment, lines 329 and 341: both variables are assigned,
\* set or not
os_environ_after(api_key_id, api_key_secret) ==
    [VERACODE_API_KEY_ID |-> api_key_id.s,
     VERACODE_API_KEY_SECRET |-> api_key_secret.s]

\* configure_environment behind @validate: the exception, NoExc when both
\* variables were written
configure_environment(api_key_id, api_key_secret) ==
    first_invalid([api_key_id |-> api_key_id, api_key_secret |-> api_key_secret],
                  <<"api_key_id", "api_key_secret">>)

\* main, lines 62-66 and 72-75: the next step of the workflow, or the end
\* of main after the last one
NextStep ==
    /\ pc = "main:workflow"
    /\ LET workflow == main_config.top["workflow"].l
           e == configure_environment(main_config.top["api_key_id"],
                                      main_config.top["api_key_secret"])
       IN IF step > Len(workflow)
            THEN MainEnds("return") /\ UNCHANGED <<environ, step>>
          ELSE IF workflow[step] \notin SUPPORTED_WORKFLOWS
            THEN /\ step' = step + 1
                 /\ UNCHANGED <<pc, environ, outcome>>
          ELSE IF e # NoExc
            THEN MainEnds(e) /\ UNCHANGED <<environ, step>>
          ELSE /\ environ' = os_environ_after(main_config.top["api_key_id"],
                                               main_config.top["api_key_secret"])
               /\ pc' = workflow[step]
               /\ UNCHANGED <<outcome, step>>
    /\ UNCHANGED <<entry, wfvars, main_config, sessions>>
    /\ UNCHANGED call

\* main that logs the failed submission and goes on with the next step
AfterSubmitArtifacts_goes_on ==
    /\ pc = "main:after_submit_artifacts"
    /\ pc' = "main:workflow"
    /\ step' = step + 1
    /\ UNCHANGED <<entry, wfvars, environ, main_config, sessions, outcome>>
    /\ UNCHANGED call

\* main, lines 67-71
AfterSubmitArtifacts ==
    /\ pc = "main:after_submit_artifacts"
    /\ IF sa_result = "True"
         THEN pc' = "main:workflow" /\ step' = step + 1 /\ UNCHANGED outcome
       ELSE IF sa_result = "False"
         THEN MainEnds("sys.exit(1)") /\ UNCHANGED step
       ELSE MainEnds(sa_result) /\ UNCHANGED step
    /\ UNCHANGED <<entry, wfvars, environ, main_config, sessions>>
    /\ UNCHANGED call

\* main that does not read what check_compliance returned
AfterCheckCompliance_goes_on ==
    /\ pc = "main:after_check_compliance"
    /\ IF cc_result \in {"True", "False"}
         THEN pc' = "main:workflow" /\ step' = step + 1 /\ UNCHANGED outcome
       ELSE MainEnds(cc_result) /\ UNCHANGED step
    /\ cc_answer' = PlainDoc
    /\ UNCHANGED <<entry, upload_api, results_api, sandbox_api, requests,
                   artifacts, uploaded, sa_result, sb_answer, cc_result,
                   environ, main_config, sessions>>
    /\ UNCHANGED call

\* main, lines 76-77; the answer was a local of check_compliance
AfterCheckCompliance ==
    /\ pc = "main:after_check_compliance"
    /\ IF cc_result = "True"
         THEN pc' = "main:workflow" /\ step' = step + 1 /\ UNCHANGED outcome
       ELSE IF cc_result = "False"
         THEN MainEnds("sys.exit(1)") /\ UNCHANGED step
       ELSE MainEnds(cc_result) /\ UNCHANGED step
    /\ cc_answer' = PlainDoc
    /\ UNCHANGED <<entry, upload_api, results_api, sandbox_api, requests,
                   artifacts, uploaded, sa_result, sb_answer, cc_result,
                   environ, main_config, sessions>>
    /\ UNCHANGED call


\* ------------------------------------------------------------------------
\* The specification
\* ------------------------------------------------------------------------
NoSandbox == [given |-> FALSE, sandbox_name |-> NoneVal]
NoSession == [app_id |-> NoneVal, sandbox_id |-> NoneVal]
NoResults == [app_id |-> NoneVal, ignore_compliance_status |-> FALSE]

InitCommon ==
    /\ requests = <<>>
    /\ artifacts = <<>>
    /\ uploaded = 0
    /\ sa_result = Pending
    /\ cc_answer = PlainDoc
    /\ sb_answer = PlainDoc
    /\ cc_result = Pending
    /\ main_config = EmptyConfig
    /\ step = 1
    /\ outcome = Pending
    /\ call = NoCall

\* main is run: no session exists yet and submit_artifacts will be called
\* without a Sandbox session
InitMain ==
    /\ entry = "main"
    /\ pc = "main:get_config"
    /\ environ \in Environs
    /\ sessions = {}
    /\ upload_api = NoSession
    /\ results_api = NoResults
    /\ sandbox_api = NoSandbox

\* submit_artifacts is called with an Upload session and, possibly, a
\* Sandbox session
InitSubmitArtifacts ==
    /\ InitCommon
    /\ entry = "submit_artifacts"
    /\ pc = "submit_artifacts"
    /\ environ = EmptyDict
    /\ sessions = {"upload"}
    /\ upload_api \in [app_id : {"31337"}, sandbox_id : {NoneVal, "222"}]
    /\ results_api = NoResults
    /\ sandbox_api \in {NoSandbox} \cup
                       [given : {TRUE}, sandbox_name : SandboxNames]

\* check_compliance is called with a Results session
InitCheckCompliance ==
    /\ InitCommon
    /\ entry = "check_compliance"
    /\ pc = "check_compliance"
    /\ environ = EmptyDict
    /\ sessions = {"results"}
    /\ upload_api = NoSession
    /\ results_api \in [app_id : AppIds, ignore_compliance_status : BOOLEAN]
    /\ sandbox_api = NoSandbox

\* The program: main is run; it calls submit_artifacts with the Upload
\* session alone
Init == InitCommon /\ InitMain

Next ==
    \/ GetConfig
    \/ MakeResultsAPI
    \/ MakeUploadAPI
    \/ NextStep
    \/ SubmitArtifacts
    \/ IsReadyForNewBuild
    \/ CancelBuild
    \/ CreateBuild
    \/ FilterFiles
    \/ UploadLargeFile
    \/ BeginPrescan
    \/ AfterSubmitArtifacts
    \/ CheckCompliance
    \/ AfterCheckCompliance

Spec == Init /\ [][Next]_vars

\* submit_artifacts called on its own
NextSubmitArtifacts ==
    \/ SubmitArtifacts
    \/ GetSandboxId
    \/ CreateSandbox
    \/ IsReadyForNewBuild
    \/ CancelBuild
    \/ CreateBuild
    \/ FilterFiles
    \/ UploadLargeFile
    \/ BeginPrescan

SpecSubmitArtifacts ==
    InitSubmitArtifacts /\ [][NextSubmitArtifacts]_vars

\* check_compliance called on its own
SpecCheckCompliance ==
    InitCheckCompliance /\ [][CheckCompliance]_vars


\* ------------------------------------------------------------------------
\* The request log, read back
\* ------------------------------------------------------------------------
\* The positions of the requests to an endpoint
Calls(endpoint) == {i \in DOMAIN requests : requests[i].endpoint = endpoint}

\* The requests that build setup and the later steps send
BuildEndpoints ==
    {"getbuildinfo.do", "deletebuild.do", "createbuild.do",
     "uploadlargefile.do", "beginprescan.do"}

\* submit_artifacts is over without having returned True
SubmitFailed == pc = "done" /\ sa_result \notin {Pending, "True"}

\* The answer lists a sandbox of that name
ListsSandbox(resp, sandbox_name) ==
    \E i \in DOMAIN resp.items : resp.items[i].sandbox_name = sandbox_name

\* The answer to createsandbox.do holds an identifier that can be used: its
\* first element has a sandbox_id that is a whole number
HoldsSandboxId(resp) ==
    /\ http_request(resp) = NoExc
    /\ resp.items # <<>>
    /\ resp.items[1].sandbox_id \in IntStrings

\* ------------------------------------------------------------------------
\* submit_artifacts (SpecSubmitArtifacts)
\* ------------------------------------------------------------------------
\* C1, as the claim states it: when createbuild.do has failed and
\* submit_artifacts is over, the build was cancelled exactly once after the
\* failed creation and createbuild.do was requested exactly twice.
C1_CancelAndRetryAfterFailedCreation ==
    (pc = "done" /\ \E i \in Calls("createbuild.do") : ~requests[i].ok)
    => /\ Cardinality(Calls("deletebuild.do")) = 1
       /\ Cardinality(Calls("createbuild.do")) = 2
       /\ \A d \in Calls("deletebuild.do") :
            \E i \in Calls("createbuild.do") : i < d /\ ~requests[i].ok

\* C1, amended: build setup asks first whether the application is ready for
\* a new build (getbuildinfo.do, once); deletebuild.do is requested at most
\* once, only right after a readiness answer of "not ready", and such an
\* answer is always followed by it; createbuild.do is requested at most
\* once, after a "ready" answer or after a cancel that succeeded, and is
\* never retried; file filtering is reached only after a creation that
\* succeeded and is what follows it; a cancel or a creation that fails ends
\* submit_artifacts with a failure.
C1_ReadinessThenCancelOnceThenCreateOnce ==
    LET info == Calls("getbuildinfo.do")
        del == Calls("deletebuild.do")
        cre == Calls("createbuild.do")
    IN /\ Cardinality(info) <= 1
       /\ Cardinality(del) <= 1
       /\ Cardinality(cre) <= 1
       /\ \A d \in del :
            /\ d > 1
            /\ requests[d - 1].endpoint = "getbuildinfo.do"
            /\ requests[d - 1].result = "False"
       /\ \A i \in info :
            requests[i].result = "False"
            => \/ pc = "cancel_build" /\ i = Len(requests)
               \/ i + 1 \in del
       /\ \A c \in cre :
            /\ c > 1
            /\ \/ /\ requests[c - 1].endpoint = "getbuildinfo.do"
                  /\ requests[c - 1].result = "True"
               \/ /\ requests[c - 1].endpoint = "deletebuild.do"
                  /\ requests[c - 1].ok
       /\ \A i \in del \cup cre : ~requests[i].ok => SubmitFailed
       /\ \A d \in del :
            requests[d].ok => (pc = "create_build" \/ d + 1 \in cre)
       /\ pc = "filter_file"
            => /\ requests # <<>>
               /\ Last(requests).endpoint = "createbuild.do"
               /\ Last(requests).ok
       /\ \A c \in cre :
            (requests[c].ok /\ artifacts = <<>> /\ sa_result = Pending)
            => pc = "filter_file"

\* C1, witness: the application was not ready, the cancel and the creation
\* succeeded, and file filtering is next
C1_Witness ==
    /\ pc = "filter_file"
    /\ Len(requests) >= 3
    /\ requests[Len(requests) - 2].endpoint = "getbuildinfo.do"
    /\ requests[Len(requests) - 2].result = "False"
    /\ requests[Len(requests) - 1].endpoint = "deletebuild.do"
    /\ requests[Len(requests) - 1].ok
    /\ Last(requests).endpoint = "createbuild.do"
    /\ Last(requests).ok

\* C2, as the claim states it: submit_artifacts returns True only if the
\* sandbox id was resolved when a Sandbox session was given, the build was
\* created, at least one artifact was admitted, every admitted artifact was
\* uploaded and the prescan was started; beginprescan.do is requested only
\* after createbuild.do succeeded and every admitted artifact was uploaded.
C2_TrueOnlyIfEveryStepSucceeded ==
    /\ sa_result = "True"
       => /\ sandbox_api.given => upload_api.sandbox_id # NoneVal
          /\ \E c \in Calls("createbuild.do") : requests[c].ok
          /\ artifacts # <<>>
          /\ uploaded = Len(artifacts)
          /\ \E b \in Calls("beginprescan.do") : requests[b].ok
    /\ \A b \in Calls("beginprescan.do") :
          /\ \E c \in Calls("createbuild.do") : c < b /\ requests[c].ok
          /\ \A a \in DOMAIN artifacts :
               \E u \in Calls("uploadlargefile.do") :
                  /\ u < b
                  /\ requests[u].ok
                  /\ requests[u].filename = artifacts[a].name

\* C3: a request that failed is the last request and submit_artifacts is
\* over with a failure; every earlier request succeeded; while no artifact
\* has been admitted (an empty filter result included) no upload and no
\* prescan is requested; the prescan is requested only when every admitted
\* artifact was uploaded; once submit_artifacts is over, with True only if
\* every request succeeded, nothing more is requested.
C3_State ==
    /\ \A i \in DOMAIN requests :
         (~requests[i].ok \/ requests[i].result \in {"RuntimeError", "ParseError"})
         => i = Len(requests) /\ SubmitFailed
    /\ artifacts = <<>>
         => Calls("uploadlargefile.do") \cup Calls("beginprescan.do") = {}
    /\ uploaded < Len(artifacts) => Calls("beginprescan.do") = {}
    /\ Cardinality(Calls("uploadlargefile.do")) \in {uploaded, uploaded + 1}
    /\ Cardinality(Calls("uploadlargefile.do")) = uploaded + 1 => SubmitFailed
    /\ pc = "done" => sa_result # Pending
    /\ sa_result # Pending => pc = "done"
    /\ sa_result = "True"
         => /\ \A i \in DOMAIN requests : requests[i].ok
            /\ Calls("beginprescan.do") # {}

\* C3: C3_State holds in every state, and once submit_artifacts has returned
\* its result no further request is sent and the result does not change.
C3_FailureStopsTheWorkflow ==
    /\ [](C3_State)
    /\ [][sa_result # Pending => UNCHANGED <<requests, sa_result>>]_vars

\* C3, witness: two artifacts were admitted, the upload of the first failed
\* and submit_artifacts is over
C3_Witness ==
    /\ pc = "done"
    /\ Len(artifacts) = 2
    /\ uploaded = 0
    /\ Last(requests).endpoint = "uploadlargefile.do"
    /\ ~Last(requests).ok
    /\ sa_result \notin {Pending, "True"}

\* C4, as the claim states it: with a Sandbox session, getsandboxlist.do is
\* the first request; createsandbox.do is requested only if the listing
\* held no sandbox of that name; a lookup that fails ends submit_artifacts
\* with a failure and no sandbox and no build is created; and every request
\* of build setup, upload and prescan carries the sandbox id.
C4_LookupThenCreateThenCarry ==
    sandbox_api.given
    => /\ requests # <<>> => requests[1].endpoint = "getsandboxlist.do"
       /\ pc = "create_sandbox"
            => ~ListsSandbox(sb_answer, sandbox_api.sandbox_name)
       /\ (requests # <<>> /\ ~requests[1].ok)
            => Len(requests) = 1 /\ SubmitFailed
       /\ \A i \in DOMAIN requests :
            requests[i].endpoint \in BuildEndpoints
            => requests[i].sandbox_id # NoneVal

\* C5, as the claim states it: when createsandbox.do fails or its answer
\* holds no usable sandbox identifier, submit_artifacts is over with a
\* failure; and with a Sandbox session no build is created without a
\* sandbox id.
C5_SandboxCreationFailsClosed ==
    sandbox_api.given
    => /\ (/\ requests # <<>>
           /\ Last(requests).endpoint = "createsandbox.do"
           /\ ~HoldsSandboxId(sb_answer))
          => SubmitFailed
       /\ \A c \in Calls("createbuild.do") : requests[c].sandbox_id # NoneVal

\* ------------------------------------------------------------------------
\* check_compliance (SpecCheckCompliance)
\* ------------------------------------------------------------------------
\* The request got no document: the transport raised, the status was not
\* 200, or the document is an error document
RequestFailed(resp) ==
    \/ resp.exc # NoExc
    \/ resp.status # 200
    \/ resp.root # "<malformed>" /\ casefold(resp.root) = "error"

\* The body of a 200 answer is not XML
Malformed(resp) ==
    resp.exc = NoExc /\ resp.status = 200 /\ resp.root = "<malformed>"

\* The entries of the answer that carry the application id
Matching(resp, app_id) ==
    {i \in DOMAIN resp.items : resp.items[i].app_id = app_id}

\* Every entry up to the first that matches, or every entry when none
\* matches, has an app_id attribute
IdsReadable(resp, app_id) ==
    \A i \in DOMAIN resp.items :
        (\A j \in Matching(resp, app_id) : i <= j)
        => resp.items[i].app_id # NoneVal

\* The first matching entry has no <build> element
NoBuild(resp, app_id) ==
    \E m \in Matching(resp, app_id) :
        /\ \A j \in Matching(resp, app_id) : m <= j
        /\ \A k \in DOMAIN resp.items[m].children :
             resp.items[m].children[k].tag # BuildTag

\* C6: once check_compliance has returned, with the status that
\* get_policy_compliance_status determines for the answer: "Pass" gives
\* True, "Unknown" gives False whatever the flag, and any other status gives
\* the value of the session's ignore_compliance_status flag.
C6_PassFlagUnknown ==
    cc_result # Pending
    => LET s == get_policy_compliance_status(cc_answer, results_api.app_id)
       IN s.exc = NoExc
          => /\ s.val = "Pass" => cc_result = "True"
             /\ s.val = "Unknown" => cc_result = "False"
             /\ s.val \notin {"Pass", "Unknown"}
                  => cc_result = BoolStr(results_api.ignore_compliance_status)

\* C6, witness: the status is "Unknown", the flag is set and
\* check_compliance returned False
C6_Witness ==
    /\ cc_result = "False"
    /\ results_api.ignore_compliance_status
    /\ get_policy_compliance_status(cc_answer, results_api.app_id)
         = Ret("Unknown")
    /\ ~RequestFailed(cc_answer)

StepOf(endpoint) ==
    IF endpoint = "getappbuilds.do" THEN "check_compliance"
    ELSE "submit_artifacts"

\* The first request of every step that sent one: main calls
\* submit_artifacts without a Sandbox session, so getbuildinfo.do is its
\* first request
FirstRequests ==
    SelectSeq(requests,
              LAMBDA r : r.endpoint \in {"getbuildinfo.do", "getappbuilds.do"})

\* get_config has returned a config
HasConfig == main_config # EmptyConfig

\* main is over and get_config had not returned a config
ConfigFailed == pc = "done" /\ ~HasConfig

\* main is over, with a config, without both sessions
SessionFailed ==
    pc = "done" /\ HasConfig /\ sessions # {"results", "upload"}

\* A step returned False or raised
StepFailed ==
    \/ sa_result \notin {Pending, "True"}
    \/ cc_result \notin {Pending, "True"}

\* Every key of the dict passes is_valid_attribute
AllValid(d) ==
    \A k \in DOMAIN d : utils_is_valid_attribute(k, d[k]) = Ret("True")

\* C8: the steps that sent requests are, in order, the first steps of the
\* configured workflow, one at a time; the step a call is in is the step
\* the workflow names at that position; once a step has returned False or
\* raised, no later step is begun and main ends with exit code 1; with the
\* workflow [submit_artifacts, check_compliance] and submit_artifacts
\* returning False, check_compliance is not called and getappbuilds.do is
\* never requested.
C8_StepsInOrderAndFailureStops ==
    /\ ~HasConfig => requests = <<>> /\ step = 1
    /\ HasConfig
       => LET workflow == main_config.top["workflow"].l
              begun == FirstRequests
          IN /\ Len(begun) <= Len(workflow)
             /\ \A i \in 1..Len(begun) :
                  StepOf(begun[i].endpoint) = workflow[i]
             /\ Len(begun) \in {step - 1, step}
             /\ pc \in SUPPORTED_WORKFLOWS
                  => /\ step <= Len(workflow)
                     /\ workflow[step] = pc
                     /\ Len(begun) = step - 1
             /\ StepFailed
                  => /\ pc \in {"main:after_submit_artifacts",
                                "main:after_check_compliance", "done"}
                     /\ Len(begun) <= step
                     /\ pc = "done" => ExitCode(outcome) = 1
             /\ (/\ workflow = <<"submit_artifacts", "check_compliance">>
                 /\ sa_result = "False")
                  => /\ Calls("getappbuilds.do") = {}
                     /\ cc_result = Pending
                     /\ pc \in {"main:after_submit_artifacts", "done"}
                     /\ pc = "done" => ExitCode(outcome) = 1

\* C8, witness: the workflow is [submit_artifacts, check_compliance],
\* submit_artifacts returned False and main has ended
C8_Witness ==
    /\ pc = "done"
    /\ HasConfig
    /\ main_config.top["workflow"].l = <<"submit_artifacts", "check_compliance">>
    /\ sa_result = "False"
    /\ outcome = "sys.exit(1)"
    /\ requests # <<>>

\* C9: when get_config raises, main is over with exit code 1, no session
\* exists, no request was sent and the environment is the one main started
\* with; and a config that get_config did return has the required
\* top-level keys, only valid top-level values, a loglevel that names a
\* real level, a workflow of supported steps and, for every api its
\* workflow uses, the required attribute and only valid values.  The
\* environment is written by nothing before the workflow loop.
C9_State ==
    /\ pc = "done" => outcome # Pending
    /\ ConfigFailed
         => /\ ExitCode(outcome) = 1
            /\ sessions = {}
            /\ requests = <<>>
            /\ environ \in Environs
            /\ step = 1
    /\ HasConfig
         => LET top == main_config.top
                apis == add_apis_to_config(main_config).apis
            IN /\ REQUIRED_CONFIG_ATTRIBUTES_TOP \subseteq DOMAIN top
               /\ AllValid(top)
               /\ top["loglevel"].s \in ALLOWED_LOG_LEVELS
               /\ \A i \in DOMAIN top["workflow"].l :
                    top["workflow"].l[i] \in SUPPORTED_WORKFLOWS
               /\ \A a \in workflow_apis(top["workflow"].l) :
                    /\ REQUIRED_CONFIG_ATTRIBUTES_API \subseteq DOMAIN apis[a]
                    /\ AllValid(apis[a])

\* C9: C9_State holds in every state, and no step taken while main is still
\* loading the configuration or building the sessions writes the environment
\* or sends a request.
C9_ConfigFailureExitsAtStartup ==
    /\ [](C9_State)
    /\ [][(pc \in {"main:get_config", "main:results_api", "main:upload_api"})
            => UNCHANGED <<environ, requests>>]_vars

\* C9, witness: get_config raised ValueError with the credential variables
\* set in the environment, and main has ended
C9_Witness ==
    /\ ConfigFailed
    /\ outcome = "sys.exit(1)"
    /\ environ # EmptyDict

SameTarget(i, j) ==
    /\ requests[i].endpoint = requests[j].endpoint
    /\ requests[i].filename = requests[j].filename

\* The positions at which a workflow step sent its first request
StepStarts ==
    {k \in DOMAIN requests :
        requests[k].endpoint \in {"getbuildinfo.do", "getappbuilds.do"}}

\* A failed request is the last request of the run, and the run that has
\* ended after it has a non-zero exit code
FailureEndsRun ==
    \A i \in DOMAIN requests :
        ~requests[i].ok
        => /\ i = Len(requests)
           /\ pc = "done" => ExitCode(outcome) # 0

\* C11 as stated: in one run of main every target is requested at most
\* once, except createbuild.do, which is requested at most twice and a
\* second time only after the one deletebuild.do; and a failed request ends
\* the run with a non-zero exit code.
C11_AtMostOncePerRun ==
    /\ \A i, j \in DOMAIN requests :
         (i < j /\ SameTarget(i, j))
         => /\ requests[i].endpoint = "createbuild.do"
            /\ \E k \in Calls("deletebuild.do") : i < k /\ k < j
    /\ Cardinality(Calls("createbuild.do")) <= 2
    /\ Cardinality(Calls("deletebuild.do")) <= 1
    /\ FailureEndsRun

\* C11: in one run of main no target is requested twice within one workflow
\* step (two requests with the same target are separated by the start of a
\* later step), createbuild.do included; a failed request is the last
\* request of the run, and the run that ended after it has a non-zero exit
\* code.
C11_AtMostOncePerStep ==
    /\ \A i, j \in DOMAIN requests :
         (i < j /\ SameTarget(i, j))
         => \E k \in StepStarts : i < k /\ k <= j
    /\ FailureEndsRun

\* C11, witness: the run has ended after a build was cancelled and created
\* and the prescan request failed
C11_Witness ==
    /\ pc = "done"
    /\ Calls("deletebuild.do") # {}
    /\ Calls("createbuild.do") # {}
    /\ Calls("beginprescan.do") # {}
    /\ ~Last(requests).ok
    /\ ExitCode(outcome) = 1

\* ------------------------------------------------------------------------
\* get_config called on its own (SpecGetConfig)
\* ------------------------------------------------------------------------
\* Every variable of a run of main at rest: no session, no request
IdleProcess ==
    /\ entry = "call"
    /\ pc = "call"
    /\ requests = <<>>
    /\ artifacts = <<>>
    /\ uploaded = 0
    /\ sa_result = Pending
    /\ cc_answer = PlainDoc
    /\ sb_answer = PlainDoc
    /\ cc_result = Pending
    /\ main_config = EmptyConfig
    /\ step = 1
    /\ outcome = Pending
    /\ sessions = {}
    /\ upload_api = NoSession
    /\ results_api = NoResults
    /\ sandbox_api = NoSandbox

\* A function is called on its own in an empty environment
Idle == IdleProcess /\ environ = EmptyDict

\* The options one command line gives: None for an option that is not given
CliOptions ==
    [api_key_id : {None, Str(KEY_ID)},
     app_id : {None, Str("1337")},
     build_dir : {None, PathVal("/cwd/build")},
     build_id : {None, Str("2020-01-01_00-00-00")},
     sandbox_name : {None, Str("dev")},
     workflow : {None, List(<<"submit_artifacts">>)},
     loglevel : {None, Str("DEBUG")},
     disable_auto_scan : {Bool(FALSE), Bool(TRUE)}]

\* vars(parser.parse_args()) for the options of one command line
CliArgs(o) ==
    [api_key_id |-> o.api_key_id,
     api_key_secret |-> IF o.api_key_id = None THEN None ELSE Str(KEY_SECRET),
     app_id |-> o.app_id,
     build_dir |-> o.build_dir,
     build_id |-> o.build_id,
     config_file |-> PathVal("/cwd/easy_sast.yml"),
     disable_auto_scan |-> o.disable_auto_scan,
     disable_scan_nonfatal_modules |-> Bool(FALSE),
     ignore_compliance_status |-> Bool(FALSE),
     sandbox_name |-> o.sandbox_name,
     workflow |-> o.workflow,
     loglevel |-> o.loglevel]

\* A config file that names every field a file can name
FullDocument ==
    Config([loglevel |-> Str("info"),
            workflow |-> List(<<"check_compliance">>),
            app_name |-> Str("TestApp")],
           [a \in SUPPORTED_APIS |->
              CASE a = "upload" ->
                     [app_id |-> Str("31337"), build_id |-> Str("v1.2.3"),
                      build_dir |-> Str("out"), auto_scan |-> Bool(FALSE)]
                [] a = "sandbox" ->
                     [app_id |-> Str("31337"), build_id |-> Str("v1.2.3"),
                      sandbox_name |-> Str("qa")]
                [] OTHER -> [app_id |-> Str("31337")]])

\* A document with the two secrets added at its top level
WithSecrets(doc, id, secret) ==
    Config(DictUpdate(doc.top, [api_key_id |-> id, api_key_secret |-> secret]),
           doc.apis)

\* The config files get_config is called with
ConfigFiles ==
    {FileRead("missing", EmptyConfig),
     FileRead("mapping", Config([app_name |-> Str("TestApp")], NoApis)),
     FileRead("mapping", FullDocument),
     FileRead("mapping",
              WithSecrets(FullDocument, Str(KEY_ID_FILE), Str(KEY_SECRET)))}

\* The calls of get_config
GetConfigCalls ==
    [fn : {"get_config"},
     parsed_args : {CliArgs(o) : o \in CliOptions},
     file : ConfigFiles,
     env : Environs,
     done : {FALSE},
     result : {Ret(EmptyConfig)}]

InitGetConfig == Idle /\ call \in GetConfigCalls

\* get_config()
CallGetConfig ==
    /\ call.fn = "get_config"
    /\ ~call.done
    /\ call' = [call EXCEPT
                  !.done = TRUE,
                  !.result = get_config(call.parsed_args, call.file, call.env)]
    /\ UNCHANGED <<entry, pc, wfvars, mainvars>>

SpecGetConfig == InitGetConfig /\ [][CallGetConfig]_vars


\* ------------------------------------------------------------------------
\* The effective config, read back
\* ------------------------------------------------------------------------
\* The values a config holds for a field, at its top level and in its apis
Located(config, f) ==
    (IF f \in DOMAIN config.top THEN {config.top[f]} ELSE {})
    \cup {config.apis[a][f] :
            a \in {x \in DOMAIN config.apis : f \in DOMAIN config.apis[x]}}

\* The fields the command line can give
CliFields ==
    {"app_id", "build_dir", "build_id", "sandbox_name", "workflow",
     "loglevel", "api_key_id", "api_key_secret"}

\* The values of a field in the source of highest precedence that gives it:
\* the command line, the environment for the two secrets, the config file
\* for the other fields, the defaults
Expected(c, f) ==
    LET env_config == get_env_config(c.env)
        file_config == get_file_config(c.file).val
    IN IF c.parsed_args[f] # None THEN {c.parsed_args[f]}
       ELSE IF f \in {"api_key_id", "api_key_secret"} THEN {env_config[f]}
       ELSE IF Located(file_config, f) # {} THEN Located(file_config, f)
       ELSE Located(get_default_config, f)

\* get_config has returned a config
GotConfig == call.fn = "get_config" /\ call.done /\ call.result.exc = NoExc

\* C12 as stated: the config get_config returns holds, for every field the
\* command line can give, the value of the source of highest precedence
\* that gives the field.
C12_HighestPrecedenceSourceWins ==
    GotConfig
    => \A f \in CliFields : Located(call.result.val, f) = Expected(call, f)

\* The same for the fields get_config copies from the arguments: build_dir,
\* workflow, loglevel and the two secrets
PrecedenceOfCopiedFields ==
    GotConfig
    => \A f \in CliFields \ {"app_id", "build_id", "sandbox_name"} :
          Located(call.result.val, f) = Expected(call, f)

\* ------------------------------------------------------------------------
\* The secrets of the config file
\* ------------------------------------------------------------------------
\* The values a YAML file can give for a secret
SecretValues ==
    {None, Str(KEY_ID), Str(KEY_ID_FILE), Str(KEY_SECRET), Str(KEY_ID_BAD),
     IntVal("5")}

\* The document without its top-level secrets
WithoutSecrets(doc) ==
    Config([k \in DOMAIN doc.top \ {"api_key_id", "api_key_secret"} |->
              doc.top[k]],
           doc.apis)

\* The files that differ from a file in their top-level api_key_id and
\* api_key_secret entries only
TopSecretVariants(file) ==
    IF file.kind # "mapping" THEN {file}
    ELSE {FileRead("mapping", WithoutSecrets(file.doc))}
         \cup {FileRead("mapping", WithSecrets(WithoutSecrets(file.doc), i, s)) :
                 i \in SecretValues, s \in SecretValues}

\* The files that differ from a file in the api_key_id entry of one of its
\* api sections only
ApiSecretVariants(file) ==
    IF file.kind # "mapping" THEN {file}
    ELSE {FileRead("mapping",
                   Config(file.doc.top,
                          [file.doc.apis EXCEPT
                             ![a] = DictSet(@, "api_key_id", i)])) :
            a \in DOMAIN file.doc.apis, i \in SecretValues}

\* get_config is over
GetConfigDone == call.fn = "get_config" /\ call.done

\* The credentials of the effective config are the command line's and, for
\* a credential it does not give, the environment's
CredentialsFromEnvAndCli ==
    GotConfig
    => \A f \in {"api_key_id", "api_key_secret"} :
          call.result.val.top[f] =
             IF call.parsed_args[f] # None THEN call.parsed_args[f]
             ELSE get_env_config(call.env)[f]

\* C13 as stated: get_config yields the same result for any two files that
\* differ only in their api_key_id and api_key_secret entries, wherever in
\* the file the entries are; and the effective credentials come from the
\* environment and the command line only.
C13_FileSecretsNeverReachConfig ==
    /\ GetConfigDone
         => \A file \in TopSecretVariants(call.file)
                          \cup ApiSecretVariants(call.file) :
               get_config(call.parsed_args, file, call.env) = call.result
    /\ CredentialsFromEnvAndCli

\* C13: get_config yields the same result for any two files that differ
\* only in their top-level api_key_id and api_key_secret entries; and the
\* effective credentials come from the environment and the command line
\* only.
C13_TopLevelFileSecretsNeverReachConfig ==
    /\ GetConfigDone
         => \A file \in TopSecretVariants(call.file) :
               get_config(call.parsed_args, file, call.env) = call.result
    /\ CredentialsFromEnvAndCli

\* C13, witness: get_config has returned a config for a file that gives
\* both secrets, with the credentials of the environment
C13_Witness ==
    /\ GotConfig
    /\ call.file.kind = "mapping"
    /\ "api_key_id" \in DOMAIN call.file.doc.top
    /\ call.file.doc.top["api_key_id"] = Str(KEY_ID_FILE)
    /\ call.parsed_args["api_key_id"] = None
    /\ call.result.val.top["api_key_id"] = Str(KEY_ID_ENV)

\* ------------------------------------------------------------------------
\* normalize_config called on its own result (SpecNormalizeConfig)
\* ------------------------------------------------------------------------
\* How many times normalize_config is applied
MaxNormalize == 2

\* The dicts with one key, or without it
Optional(key, values) ==
    {EmptyDict} \cup {[k \in {key} |-> v] : v \in values}

\* The top levels of the configs normalize_config is called with
NormalizeTops ==
    {DictUpdate(DictUpdate(a, l), w) :
        a \in Optional("app_name", {None, Str("TestApp")}),
        l \in Optional("loglevel", {Str("info"), Str("warn"), Str("verbose"),
                                    IntVal("10")}),
        w \in Optional("workflow", {None})}

\* The upload sections
NormalizeUploads ==
    {DictUpdate(b, a) :
        b \in Optional("build_dir", {None, Str("out"), PathVal("/cwd/build"),
                                     IntVal("5")}),
        a \in Optional("app_name", {Str("Other")})}

\* The dicts under "apis": none, the upload section alone or with an empty
\* results section, and a section of an api that is not supported
NormalizeApis ==
    {NoApis, [a \in {"other"} |-> [x \in {"note"} |-> None]]}
    \cup {[a \in {"upload"} |-> u] : u \in NormalizeUploads}
    \cup {[a \in {"upload", "results"} |->
             IF a = "upload" THEN u ELSE EmptyDict] : u \in NormalizeUploads}

\* The calls of normalize_config: the config and the results of the
\* applications so far, each on the result of the one before
NormalizeCalls ==
    [fn : {"normalize_config"},
     config : {Config(t, a) : t \in NormalizeTops, a \in NormalizeApis},
     done : {FALSE},
     results : {<<>>}]

InitNormalizeConfig == Idle /\ call \in NormalizeCalls

\* normalize_config(config=...) on the config, then on what it returned
CallNormalizeConfig ==
    /\ call.fn = "normalize_config"
    /\ Len(call.results) < MaxNormalize
    /\ call.results # <<>> => Last(call.results).exc = NoExc
    /\ LET config == IF call.results = <<>> THEN call.config
                     ELSE Last(call.results).val
       IN call' = [call EXCEPT
                     !.done = TRUE,
                     !.results = Append(@, normalize_config(config))]
    /\ UNCHANGED <<entry, pc, wfvars, mainvars>>

SpecNormalizeConfig == InitNormalizeConfig /\ [][CallNormalizeConfig]_vars

\* C14: when normalize_config returns a config, every further application
\* of normalize_config to what it returned returns the same config without
\* raising.
C14_NormalizeIsIdempotent ==
    call.fn = "normalize_config"
    => \A i \in DOMAIN call.results :
          /\ i > 1 => call.results[i - 1].exc = NoExc
          /\ i > 1 => call.results[i] = call.results[1]

\* C14, witness: normalize_config was applied twice to a config in which it
\* moved a common attribute, changed the loglevel and the build_dir and
\* dropped a None value
C14_Witness ==
    /\ call.fn = "normalize_config"
    /\ Len(call.results) >= 2
    /\ "app_name" \in DOMAIN call.config.top
    /\ "loglevel" \in DOMAIN call.config.top
    /\ call.config.top["loglevel"] = Str("info")
    /\ "workflow" \in DOMAIN call.config.top
    /\ "upload" \in DOMAIN call.config.apis
    /\ "build_dir" \in DOMAIN call.config.apis["upload"]
    /\ call.config.apis["upload"]["build_dir"] = Str("out")
    /\ call.results[2].exc = NoExc
    /\ call.results[2].val # call.config

\* ------------------------------------------------------------------------
\* filter_config on nested objects (SpecFilterConfig)
\* ------------------------------------------------------------------------
\* A Python object: None, a scalar, a dict (its keys are strings) or a list
PyNone == [kind |-> "None", d |-> <<>>, l |-> <<>>]
PyScalar == [kind |-> "scalar", d |-> <<>>, l |-> <<>>]
PyDict(d) == [kind |-> "dict", d |-> d, l |-> <<>>]
PyList(l) == [kind |-> "list", d |-> <<>>, l |-> l]

\* How deep the objects under a config nest
MaxDepth == 4

\* The dicts with keys among K, the lists of at most one item, and the
\* objects that nest at most n deep, with values and items among V
DictsOver(K, V) == UNION {{PyDict(d) : d \in [S -> V]} : S \in SUBSET K}
ListsOver(V) == {PyList(<<>>)} \cup {PyList(<<v>>) : v \in V}
RECURSIVE ObjectsUpTo(_)
ObjectsUpTo(n) ==
    IF n = 0 THEN {PyNone, PyScalar}
    ELSE LET V == ObjectsUpTo(n - 1) IN
         {PyNone, PyScalar} \cup DictsOver({"a"}, V) \cup ListsOver(V)

\* remove_nones
RECURSIVE remove_nones_obj(_)
remove_nones_obj(obj) ==
    IF obj.kind = "list"
    THEN LET kept == SelectSeq(obj.l, LAMBDA item : item # PyNone) IN
         PyList([i \in DOMAIN kept |-> remove_nones_obj(kept[i])])
    ELSE IF obj.kind = "dict"
    THEN PyDict([k \in {x \in DOMAIN obj.d : obj.d[x] # PyNone} |->
                    remove_nones_obj(obj.d[k])])
    ELSE obj

\* remove_empty_dicts
RECURSIVE remove_empty_dicts_obj(_)
remove_empty_dicts_obj(obj) ==
    IF obj.kind = "list"
    THEN LET kept == SelectSeq(obj.l, LAMBDA item : item # PyDict(<<>>)) IN
         PyList([i \in DOMAIN kept |-> remove_empty_dicts_obj(kept[i])])
    ELSE IF obj.kind = "dict"
    THEN PyDict([k \in {x \in DOMAIN obj.d : obj.d[x] # PyDict(<<>>)} |->
                    remove_empty_dicts_obj(obj.d[k])])
    ELSE obj

\* filter_config, lines 68-76: the loop
RECURSIVE filter_until_unchanged(_)
filter_until_unchanged(previous) ==
    LET filtered == remove_empty_dicts_obj(remove_nones_obj(previous)) IN
    IF filtered # previous THEN filter_until_unchanged(filtered)
    ELSE filtered

\* filter_config that filters once
filter_config_obj_once(config) ==
    remove_empty_dicts_obj(remove_nones_obj(config))

\* filter_config
filter_config_obj(config) ==
    LET filtered == remove_empty_dicts_obj(remove_nones_obj(config)) IN
    IF config = filtered THEN config
    ELSE filter_until_unchanged(filtered)

\* The calls of filter_config: a dict of up to two keys
FilterCalls ==
    [fn : {"filter_config"},
     config : DictsOver({"a", "b"}, ObjectsUpTo(MaxDepth - 1)),
     done : {FALSE},
     result : {PyNone}]

InitFilterConfig == Idle /\ call \in FilterCalls

\* filter_config(config=...)
CallFilterConfig ==
    /\ call.fn = "filter_config"
    /\ ~call.done
    /\ call' = [call EXCEPT !.done = TRUE,
                            !.result = filter_config_obj(call.config)]
    /\ UNCHANGED <<entry, pc, wfvars, mainvars>>

SpecFilterConfig == InitFilterConfig /\ [][CallFilterConfig]_vars

\* No value of a dict and no item of a list, at any depth, is None or {}
RECURSIVE Clean(_)
Clean(obj) ==
    /\ \A k \in DOMAIN obj.d :
         obj.d[k] \notin {PyNone, PyDict(<<>>)} /\ Clean(obj.d[k])
    /\ \A i \in DOMAIN obj.l :
         obj.l[i] \notin {PyNone, PyDict(<<>>)} /\ Clean(obj.l[i])

\* None, or a dict whose values are all of this kind
RECURSIVE Removable(_)
Removable(obj) ==
    \/ obj = PyNone
    \/ obj.kind = "dict" /\ \A k \in DOMAIN obj.d : Removable(obj.d[k])

\* C15: what filter_config returns is a dict that one more round of
\* remove_nones and remove_empty_dicts leaves unchanged, with no None and
\* no empty dict at any depth; and it is {} when the config holds only
\* None values and dicts that hold, transitively, nothing else.
C15_FilterReachesCleanFixedPoint ==
    (call.fn = "filter_config" /\ call.done)
    => /\ call.result.kind = "dict"
       /\ remove_empty_dicts_obj(remove_nones_obj(call.result)) = call.result
       /\ Clean(call.result)
       /\ Removable(call.config) => call.result = PyDict(<<>>)

\* C15, witness: filter_config has returned {} for a config that nests
\* three dicts around a None value, which one round does not empty
C15_Witness ==
    /\ call.fn = "filter_config"
    /\ call.done
    /\ call.config =
         PyDict([k \in {"a"} |->
            PyDict([k2 \in {"a"} |-> PyDict([k3 \in {"a"} |-> PyNone])])])
    /\ remove_empty_dicts_obj(remove_nones_obj(call.config)) # PyDict(<<>>)
    /\ call.result = PyDict(<<>>)

\* ------------------------------------------------------------------------
\* is_valid_attribute called on its own, the one of utils.py and the one of
\* api.py
\* ------------------------------------------------------------------------
LONG_LABEL == "aaaaaaaaaaaaaaaaaaaaaaaaaaaaaaaaaaaaaaaaaaaaaaaaaaaaaaaaaaaaaaa"

\* netloc.split(".") on the hosts of the model
Labels(host) ==
    CASE host = "example.com" -> <<Label(7, "name"), Label(3, "name")>>
      [] host = "analysiscenter.veracode.com" ->
            <<Label(14, "name"), Label(8, "name"), Label(3, "name")>>
      [] host = "my_host.example-1.com" ->
            <<Label(7, "name"), Label(9, "name"), Label(3, "name")>>
      [] host = "192.168.1.100" ->
            <<Label(3, "number"), Label(3, "number"), Label(1, "number"),
              Label(3, "number")>>
      [] host = "127.0.0.1" ->
            <<Label(3, "number"), Label(1, "number"), Label(1, "number"),
              Label(1, "number")>>
      [] host = "[::1]" -> <<Label(5, "other")>>
      [] host = "Example.com" -> <<Label(7, "upper"), Label(3, "name")>>
      [] host = "a.b" -> <<Label(1, "name"), Label(1, "name")>>
      [] host = "localhost" -> <<Label(9, "name")>>
      [] host = "-a.com" -> <<Label(2, "edge"), Label(3, "name")>>
      [] host = LONG_LABEL \o ".com" -> <<Label(63, "name"), Label(3, "name")>>
      [] host = LONG_LABEL \o "a.com" -> <<Label(64, "name"), Label(3, "name")>>
      [] OTHER -> <<>>

\* A base_url string and what urlparse makes of it
BaseUrl(scheme, host, port_text, port, path) ==
    Url(scheme \o "://" \o host \o port_text \o path, casefold(scheme), host,
        HostMatches(Labels(host)), port, path)
Port(digits, value) == [digits |-> digits, value |-> value]

HostUrls ==
    {BaseUrl("https", h, "", NoPort, "/api/") :
        h \in {"example.com", "analysiscenter.veracode.com",
               "my_host.example-1.com", "192.168.1.100", "127.0.0.1", "[::1]",
               "Example.com", "a.b", "localhost", "-a.com", "",
               LONG_LABEL \o ".com", LONG_LABEL \o "a.com"}}
PortUrls ==
    {BaseUrl("https", "example.com", ":443", Port(3, 443), "/api/"),
     BaseUrl("https", "example.com", ":0", Port(1, 0), "/api/"),
     BaseUrl("https", "example.com", ":00080", Port(5, 80), "/api/"),
     BaseUrl("https", "example.com", ":65529", Port(5, 65529), "/api/"),
     BaseUrl("https", "example.com", ":65530", Port(5, 65530), "/api/"),
     BaseUrl("https", "example.com", ":65535", Port(5, 65535), "/api/"),
     BaseUrl("https", "example.com", ":65536", Port(5, 65536), "/api/"),
     BaseUrl("https", "example.com", ":99999", Port(5, 99999), "/api/"),
     BaseUrl("https", "example.com", ":abc", BadPort, "/api/"),
     BaseUrl("http", "example.com", ":99999", Port(5, 99999), "/api/"),
     HighPortUrl}
SchemeAndPathUrls ==
    {BaseUrl("HTTPS", "example.com", "", NoPort, "/api/"),
     BaseUrl("http", "example.com", "", NoPort, "/api/"),
     BaseUrl("ftp", "example.com", "", NoPort, "/api/"),
     BaseUrl("https", "example.com", "", NoPort, "/api"),
     BaseUrl("https", "example.com", "", NoPort, "/"),
     BaseUrl("https", "example.com", "", NoPort, "")}
BaseUrls == HostUrls \cup PortUrls \cup SchemeAndPathUrls

\* The values of the other kinds
PlainStrings ==
    {"", "31337", " 42", "abc", "v1.2.3", "2020-01-01_00-00-00",
     "Project Security", "a<b", "DEBUG", "debug", "get", "GET",
     "submit_artifacts", "getappbuilds.do",
     KEY_ID, KEY_ID_ENV, KEY_ID_BAD, KEY_ID_LONG, KEY_ID_NOT_HEX,
     KEY_ID_PREFIXED, KEY_ID_SIGNED, KEY_ID_UNDERSCORED, KEY_ID_PADDED,
     KEY_SECRET, KEY_SECRET_BAD, KEY_SECRET_SHORT, KEY_SECRET_PREFIXED,
     KEY_SECRET_PADDED}
PlainValues ==
    {None, IntVal("5"), Bool(TRUE), Bool(FALSE), PathVal("/build"),
     List(<<>>), List(<<"submit_artifacts">>),
     List(<<"submit_artifacts", "check_compliance">>), List(<<"deploy">>),
     DictVal(<<>>), DictVal(<<"str:str">>), DictVal(<<"int:str">>),
     DictVal(<<"str:int">>)}
    \cup {Str(s) : s \in PlainStrings}

\* The keys is_valid_attribute of utils.py has a rule for, and the ones
\* is_valid_attribute of api.py has a rule for
UtilsRuleKeys ==
    {"base_url", "version", "endpoint", "app_id", "build_dir", "build_id",
     "sandbox_id", "scan_all_nonfatal_top_level_modules", "auto_scan",
     "sandbox_name", "api_key_id", "api_key_secret",
     "ignore_compliance_status", "loglevel", "workflow", "verb"}
ApiRuleKeys == UtilsRuleKeys \ {"sandbox_id", "sandbox_name"}
RuleKeys(module) == IF module = "utils" THEN UtilsRuleKeys ELSE ApiRuleKeys
UnknownKeys == {"app_name", "timeout"}

IsValidAttributeCalls ==
    [fn : {"is_valid_attribute"}, module : {"utils", "api"},
     key : UtilsRuleKeys \cup UnknownKeys, value : PlainValues,
     done : {FALSE}, result : {Ret("")}]
    \cup [fn : {"is_valid_attribute"}, module : {"utils", "api"},
          key : {"base_url"} \cup UnknownKeys, value : BaseUrls,
          done : {FALSE}, result : {Ret("")}]

InitIsValidAttribute == Idle /\ call \in IsValidAttributeCalls

\* is_valid_attribute(key=key, value=value)
CallIsValidAttribute ==
    /\ call.fn = "is_valid_attribute"
    /\ ~call.done
    /\ call' = [call EXCEPT
                  !.done = TRUE,
                  !.result = IF call.module = "utils"
                             THEN utils_is_valid_attribute(call.key, call.value)
                             ELSE api_is_valid_attribute(call.key, call.value)]
    /\ UNCHANGED <<entry, pc, wfvars, mainvars>>

SpecIsValidAttribute == InitIsValidAttribute /\ [][CallIsValidAttribute]_vars

IsValidAttributeDone == call.fn = "is_valid_attribute" /\ call.done

\* The calls in which is_valid_attribute lets an exception escape: a
\* base_url that is not a string (urlparse on it, or casefold on what it
\* returns) or whose port urlparse cannot read, a loglevel or verb that
\* cannot be hashed, a workflow that cannot be iterated
Escapes(key, value) ==
    \/ /\ key = "base_url"
       /\ \/ value.t # "str"
          \/ value.url # <<>> /\ PortRaises(value.url[1].port)
    \/ key \in {"loglevel", "verb"} /\ value.t \in {"list", "dict"}
    \/ key = "workflow" /\ value.t \in {"NoneType", "int", "bool", "Path"}

IsHexString(value, n) ==
    value.t = "str" /\ Shape(value.s) = Chars(0, 0, 0, n, 0, 0, 0)

\* C17: is_valid_attribute is True for an api_key_id exactly when the value
\* is a string of exactly 32 hexadecimal characters, and for an
\* api_key_secret exactly when it is exactly 128 hexadecimal characters; no
\* prefix, sign, separator or whitespace is admitted.
C17_KeysAreExactlyHexDigits ==
    IsValidAttributeDone
    => /\ call.key = "api_key_id"
            => (call.result = Ret("True") <=> IsHexString(call.value, 32))
       /\ call.key = "api_key_secret"
            => (call.result = Ret("True") <=> IsHexString(call.value, 128))

\* ------------------------------------------------------------------------
\* The rule of base_url
\* ------------------------------------------------------------------------
\* The host is an IPv4 literal: four numbers of up to three digits
IsIPv4Literal(labels) ==
    /\ Len(labels) = 4
    /\ \A i \in 1..4 : labels[i].kind = "number" /\ labels[i].len <= 3

\* The host is a dotted DNS name: two labels or more, each of 1 to 63
\* letters, digits, hyphens and underscores, and not an IP literal
IsDnsHost(labels) ==
    /\ Len(labels) >= 2
    /\ \A i \in 1..Len(labels) :
          labels[i].kind \in {"name", "number"} /\ labels[i].len \in 1..63
    /\ ~IsIPv4Literal(labels)

\* The port is absent or a number in 0..65535
IsPort(port) == port = NoPort \/ (port # BadPort /\ port.value \in 0..65535)

\* The constraints on a base_url: the scheme, the host, the port, the path
MeetsBaseUrlConstraints(value) ==
    /\ value.url # <<>>
    /\ LET u == value.url[1] IN
       /\ casefold(u.scheme) = "https"
       /\ IsDnsHost(Labels(u.host))
       /\ IsPort(u.port)
       /\ u.path \notin {"", "/"}
       /\ EndsWithSlash(u.path)

\* C18: is_valid_attribute("base_url", v) is True for every string with
\* scheme https, a dotted DNS host with labels of at most 63 characters, an
\* absent or numeric port in 0..65535 and a path that is not empty, not "/"
\* and ends with "/"; it is False when one of these is violated, an IPv4 or
\* IPv6 literal as host included.
C18_BaseUrlRule ==
    (IsValidAttributeDone /\ call.key = "base_url" /\ call.value.t = "str")
    => call.result = Ret(BoolStr(MeetsBaseUrlConstraints(call.value)))

\* ------------------------------------------------------------------------
\* A session on its own: UploadAPI(app_id=...) or ResultsAPI(app_id=...),
\* then assignments to its properties, reads and deletions of them, and
\* writes to the fields under the properties
\* ------------------------------------------------------------------------
MaxOps == 2

\* The properties of a session; sandbox_id is a property of the Upload
\* session
SessionProperties(cls) ==
    IF cls = "upload" THEN UploadProperties \cup {"sandbox_id"}
    ELSE ResultsProperties

\* self._validate(key=..., value=...) of a getter or a setter: the exception
\* it raises, NoExc when it returns
property_validate(prop, value) ==
    IF prop = "sandbox_id" THEN sandbox_id_setter(value)
    ELSE _validate(prop, value)

\* What an operation on a property gave: the exception, and the value a read
\* returned
Gave(exc, val) == [exc |-> exc, val |-> val]

\* The getter of a property
property_get(stored, prop) ==
    IF property_validate(prop, stored[prop]) # NoExc
    THEN Gave(property_validate(prop, stored[prop]), None)
    ELSE Gave(NoExc, stored[prop])

\* The fields of a session after VeracodeXMLAPI.__init__ and the __init__ of
\* its class
DEFAULT_BASE_URL ==
    BaseUrl("https", "analysiscenter.veracode.com", "", NoPort, "/api/")
NewSession(cls, app_id) ==
    IF cls = "upload"
    THEN [base_url |-> DEFAULT_BASE_URL, version |-> DictVal(<<"str:str">>),
          app_id |-> app_id, build_dir |-> PathVal("/build"),
          build_id |-> Str("2020-01-01_00-00-00"),
          scan_all_nonfatal_top_level_modules |-> Bool(TRUE),
          auto_scan |-> Bool(TRUE), sandbox_id |-> None]
    ELSE [base_url |-> DEFAULT_BASE_URL, version |-> DictVal(<<"str:str">>),
          app_id |-> app_id, ignore_compliance_status |-> Bool(FALSE)]

\* params["sandbox_id"] of create_build: set only if upload_api.sandbox_id is
\* a string
SandboxIdParam(sandbox_id) ==
    IF sandbox_id.t = "str" THEN sandbox_id.s ELSE NoneVal

\* The values the model assigns to a property
AssignValues(prop) ==
    CASE prop = "base_url" ->
            {BaseUrl("https", "example.com", "", NoPort, "/api/"),
             BaseUrl("http", "example.com", "", NoPort, "/api/"),
             BaseUrl("https", "example.com", ":99999", Port(5, 99999), "/api/"),
             IntVal("5")}
      [] prop = "version" ->
            {DictVal(<<>>), DictVal(<<"int:str">>), Str("v1.2.3")}
      [] prop = "app_id" -> {Str("1337"), Str("abc"), IntVal("5")}
      [] prop = "build_dir" -> {PathVal("/src"), Str("abc")}
      [] prop = "build_id" -> {Str("v1.2.3"), Str("a<b")}
      [] prop = "sandbox_id" ->
            {None, Str("31337"), Str(" 42"), IntVal("5"), Str("abc"), Str(""),
             Bool(TRUE)}
      [] OTHER -> {Bool(TRUE), Bool(FALSE), Str("abc")}

NoOp == [op |-> "", prop |-> "", value |-> None, before |-> None,
         gave |-> Gave(NoExc, None)]
Op(op, prop, value, before, gave) ==
    [op |-> op, prop |-> prop, value |-> value, before |-> before,
     gave |-> gave]

\* The session: its class, the argument of its constructor, the fields under
\* its properties once it is constructed, for each property the last value
\* its setter accepted, the fields written without the setter, the number of
\* operations so far and the last one
SessionCalls ==
    [fn : {"session"}, cls : {"upload", "results"},
     app_id : AssignValues("app_id"), constructed : {FALSE}, done : {FALSE},
     stored : {EmptyDict}, accepted : {EmptyDict}, written : {{}},
     ops : {0}, last : {NoOp}]

InitSession == Idle /\ call \in SessionCalls

\* UploadAPI(app_id=...), ResultsAPI(app_id=...): the setter of app_id
\* raises, or the session is there
Construct ==
    /\ call.fn = "session"
    /\ ~call.constructed
    /\ ~call.done
    /\ LET e == property_validate("app_id", call.app_id) IN
       call' = IF e # NoExc
               THEN [call EXCEPT
                       !.done = TRUE,
                       !.last = Op("new", "app_id", call.app_id, None,
                                   Gave(e, None))]
               ELSE [call EXCEPT
                       !.constructed = TRUE,
                       !.stored = NewSession(call.cls, call.app_id),
                       !.accepted = NewSession(call.cls, call.app_id),
                       !.last = Op("new", "app_id", call.app_id, None,
                                   Gave(NoExc, None))]
    /\ UNCHANGED <<entry, pc, wfvars, mainvars>>

SessionReady ==
    call.fn = "session" /\ call.constructed /\ call.ops < MaxOps

\* session.prop = value
SetProperty ==
    /\ SessionReady
    /\ \E prop \in SessionProperties(call.cls) :
       \E value \in AssignValues(prop) :
          LET e == property_validate(prop, value) IN
          call' = [call EXCEPT
                     !.ops = @ + 1,
                     !.stored = IF e = NoExc THEN DictSet(@, prop, value) ELSE @,
                     !.accepted = IF e = NoExc THEN DictSet(@, prop, value)
                                  ELSE @,
                     !.written = IF e = NoExc THEN @ \ {prop} ELSE @,
                     !.last = Op("set", prop, value, call.stored[prop],
                                 Gave(e, None))]
    /\ UNCHANGED <<entry, pc, wfvars, mainvars>>

\* session.prop
GetProperty ==
    /\ SessionReady
    /\ \E prop \in SessionProperties(call.cls) :
          call' = [call EXCEPT
                     !.ops = @ + 1,
                     !.last = Op("get", prop, None, call.stored[prop],
                                 property_get(call.stored, prop))]
    /\ UNCHANGED <<entry, pc, wfvars, mainvars>>

\* del session.prop: the properties have no deleter
DelProperty ==
    /\ SessionReady
    /\ \E prop \in SessionProperties(call.cls) :
          call' = [call EXCEPT
                     !.ops = @ + 1,
                     !.last = Op("del", prop, None, call.stored[prop],
                                 Gave("AttributeError", None))]
    /\ UNCHANGED <<entry, pc, wfvars, mainvars>>

\* session._prop = value: the field under the property, written without the
\* setter
WriteField ==
    /\ SessionReady
    /\ \E prop \in SessionProperties(call.cls) :
       \E value \in AssignValues(prop) :
          call' = [call EXCEPT
                     !.ops = @ + 1,
                     !.stored = DictSet(@, prop, value),
                     !.written = @ \cup {prop},
                     !.last = Op("write", prop, value, call.stored[prop],
                                 Gave(NoExc, None))]
    /\ UNCHANGED <<entry, pc, wfvars, mainvars>>

NextSession ==
    Construct \/ SetProperty \/ GetProperty \/ DelProperty \/ WriteField

SpecSession == InitSession /\ [][NextSession]_vars

\* ------------------------------------------------------------------------
\* The properties of a session and the rules of their values
\* ------------------------------------------------------------------------
\* The rule of the property does not find the value valid
Rejected(prop, value) ==
    (IF prop = "sandbox_id" THEN utils_is_valid_attribute(prop, value)
     ELSE api_is_valid_attribute(prop, value)) # Ret("True")

SessionThere == call.fn = "session" /\ call.constructed

\* C19: on a constructed session, assigning to a property a value its rule
\* rejects raises ValueError and leaves the stored value as it was; reading
\* a property whose stored value is invalid raises ValueError; as long as
\* the fields are written through the setters only, every read succeeds
\* and returns the last accepted value; and deleting a property fails and
\* leaves it there.
C19_FieldsValidatedOnEveryAccess ==
    SessionThere
    => /\ (call.last.op = "set" /\ Rejected(call.last.prop, call.last.value))
            => /\ call.last.gave.exc = "ValueError"
               /\ call.stored[call.last.prop] = call.last.before
       /\ (call.last.op = "get" /\ Rejected(call.last.prop, call.last.before))
            => call.last.gave.exc = "ValueError"
       /\ \A prop \in SessionProperties(call.cls) \ call.written :
            property_get(call.stored, prop) = Gave(NoExc, call.accepted[prop])
       /\ call.last.op = "del"
            => /\ call.last.gave.exc = "AttributeError"
               /\ call.stored[call.last.prop] = call.last.before

\* ------------------------------------------------------------------------
\* The sandbox_id of the Upload session
\* ------------------------------------------------------------------------
\* None, or a string that holds a whole number
IsNoneOrWholeNumber(value) ==
    value = None \/ (value.t = "str" /\ value.s \in IntStrings)

SUPPORTED_API_CLASSES == {"ResultsAPI", "UploadAPI", "SandboxAPI"}

\* A session as an argument: the name of its class and the fields under its
\* properties
SessionVal(class, stored) ==
    [t |-> class, s |-> "", l |-> <<>>, url |-> <<>>, stored |-> stored]
Kwarg(key, value) == [key |-> key, value |-> value]

\* validate_api: the getter of every property is called, in the order of a
\* set; the exceptions the first getter that fails can raise
validate_api(api) ==
    {property_validate(prop, api.stored[prop]) : prop \in DOMAIN api.stored}
    \ {NoExc}

\* The wrapper of validate that does not look into the sessions
RECURSIVE validate_skips_sessions(_, _)
validate_skips_sessions(kwargs, i) ==
    IF i > Len(kwargs) THEN {NoExc}
    ELSE LET c == utils_is_valid_attribute(kwargs[i].key, kwargs[i].value) IN
         IF c.exc # NoExc THEN {c.exc}
         ELSE IF c.val = "False" THEN {"ValueError"}
         ELSE validate_skips_sessions(kwargs, i + 1)

\* The wrapper of validate, from the i-th keyword argument on: the
\* exceptions it can raise, NoExc when it goes on to the wrapped function
RECURSIVE validate(_, _)
validate(kwargs, i) ==
    IF i > Len(kwargs) THEN {NoExc}
    ELSE LET value == kwargs[i].value
             api == IF value.t \in SUPPORTED_API_CLASSES
                    THEN validate_api(value) ELSE {}
             c == utils_is_valid_attribute(kwargs[i].key, value)
         IN IF api # {} THEN api
            ELSE IF c.exc # NoExc THEN {c.exc}
            ELSE IF c.val = "False" THEN {"ValueError"}
            ELSE validate(kwargs, i + 1)

\* The sessions given to the wrapped operations: a new session, and a new
\* session of which one field was written without its setter
SessionsOf(class, cls) ==
    {SessionVal(class, NewSession(cls, Str("1337")))}
    \cup UNION {{SessionVal(class,
                             DictSet(NewSession(cls, Str("1337")), prop, value)) :
                     value \in AssignValues(prop)} :
                  prop \in SessionProperties(cls)}

\* The keyword arguments of the wrapped operations of the model
ValidatedCalls ==
    {<<Kwarg("upload_api", u)>> : u \in SessionsOf("UploadAPI", "upload")}
    \cup {<<Kwarg("upload_api", u), Kwarg("artifact", a)>> :
            u \in SessionsOf("UploadAPI", "upload"),
            a \in {PathVal("/build/a.jar"), Str("abc")}}
    \cup {<<Kwarg("results_api", r)>> : r \in SessionsOf("ResultsAPI", "results")}
    \cup {<<Kwarg("verb", v), Kwarg("url", u)>> :
            v \in {Str("get"), Str("GET"), None, List(<<>>)},
            u \in {Str("abc"), DEFAULT_BASE_URL}}
    \cup {<<Kwarg("api_key_id", i), Kwarg("api_key_secret", s)>> :
            i \in {Str(KEY_ID), Str(KEY_ID_BAD), None},
            s \in {Str(KEY_SECRET), Str(KEY_SECRET_BAD), IntVal("5")}}

\* A wrapped operation: its keyword arguments, whether its body ran, the
\* requests its body sent and the exception of the wrapper
WrappedCalls ==
    [fn : {"validate"}, kwargs : ValidatedCalls, done : {FALSE}, ran : {FALSE},
     sent : {0}, result : {Ret("")}]

InitValidate == Idle /\ call \in WrappedCalls

\* wrapper(**kwargs): it raises, or the wrapped function runs and sends its
\* request
CallWrapped ==
    /\ call.fn = "validate"
    /\ ~call.done
    /\ \E e \in validate(call.kwargs, 1) :
          call' = IF e # NoExc
                  THEN [call EXCEPT !.done = TRUE, !.result = Raise(e)]
                  ELSE [call EXCEPT !.done = TRUE, !.ran = TRUE, !.sent = 1,
                                    !.result = Ret("")]
    /\ UNCHANGED <<entry, pc, wfvars, mainvars>>

SpecValidate == InitValidate /\ [][CallWrapped]_vars

\* A keyword argument is invalid: a session with a field its rule rejects,
\* or another argument the rule for its name rejects
InvalidArgument(arg) ==
    IF arg.value.t \in SUPPORTED_API_CLASSES
    THEN \E prop \in DOMAIN arg.value.stored :
            Rejected(prop, arg.value.stored[prop])
    ELSE utils_is_valid_attribute(arg.key, arg.value) # Ret("True")

Statuses == {200, 201, 204, 404, 500}

\* What one request can be answered with: an exception of the transport, or
\* a response with a status and a body
HttpAnswers ==
    {Answer(e, 0, "doc", <<>>) : e \in TransportErrors}
    \cup {Answer(NoExc, st, root, <<>>) :
            st \in Statuses, root \in RootTags \cup {"<malformed>"}}

HttpRequestCalls ==
    [fn : {"http_request"}, module : {"api", "utils"},
     verb : SUPPORTED_VERBS, resp : HttpAnswers, done : {FALSE},
     result : {Ret("")}]

InitHttpRequest == Idle /\ call \in HttpRequestCalls

\* http_request(verb=..., url=...): the parsed document (its root tag) or
\* the exception
CallHttpRequest ==
    /\ call.fn = "http_request"
    /\ ~call.done
    /\ LET e == IF call.module = "api" THEN http_request(call.resp)
                ELSE utils_http_request(call.resp)
       IN call' = [call EXCEPT !.done = TRUE,
                      !.result = IF e # NoExc THEN Raise(e)
                                 ELSE Ret(call.resp.root)]
    /\ UNCHANGED <<entry, pc, wfvars, mainvars>>

SpecHttpRequest == InitHttpRequest /\ [][CallHttpRequest]_vars

\* C22: http_request returns the parsed document only for status 200 with a
\* root tag that is not 'error' in any case; every other status raises the
\* status error of the transport, an 'error' root raises RuntimeError and a
\* body that is not XML raises the parse error.
C22_OnlyA200NonErrorDocumentIsReturned ==
    (call.fn = "http_request" /\ call.done /\ call.resp.exc = NoExc)
    => LET resp == call.resp IN
       /\ call.result.exc = NoExc
             => resp.status = 200 /\ casefold(resp.root) # "error"
       /\ resp.status # 200 => call.result = Raise("HTTPError")
       /\ (resp.status = 200 /\ casefold(resp.root) = "error")
             => call.result = Raise("RuntimeError")
       /\ (resp.status = 200 /\ resp.root = "<malformed>")
             => call.result = Raise("ParseError")

\* ------------------------------------------------------------------------
\* create_build and begin_prescan called on their own
\* ------------------------------------------------------------------------
BuildRequestCalls ==
    [fn : {"create_build", "begin_prescan"}, sandbox_id : {NoneVal, "111"},
     resp : HttpAnswers, done : {FALSE}, sent : {<<>>}, result : {Ret("")}]

InitBuildRequest == Idle /\ call \in BuildRequestCalls

\* create_build(upload_api=...) or begin_prescan(upload_api=...): the
\* request it posts, with sandbox_id among the parameters when the session
\* holds one, and what it returns or raises on the answer
CallBuildRequest ==
    /\ call.fn \in {"create_build", "begin_prescan"}
    /\ ~call.done
    /\ call' = [call EXCEPT
          !.done = TRUE,
          !.sent = <<[endpoint |-> IF call.fn = "create_build"
                                   THEN "createbuild.do" ELSE "beginprescan.do",
                      sandbox_id |-> call.sandbox_id]>>,
          !.result = IF call.fn = "create_build" THEN create_build(call.resp)
                     ELSE begin_prescan(call.resp)]
    /\ UNCHANGED <<entry, pc, wfvars, mainvars>>

SpecBuildRequest == InitBuildRequest /\ [][CallBuildRequest]_vars

\* The service answered with an <error> document
ErrorDocument(resp) ==
    resp.exc = NoExc /\ resp.status = 200 /\ casefold(resp.root) = "error"

\* The request failed in the transport: no response, or an error status
TransportFailure(resp) ==
    resp.exc # NoExc \/ raise_for_status(resp.status)

\* C23: create_build and begin_prescan never raise on a remote failure: they
\* return False on an <error> document and on a transport error, and True
\* otherwise.
C23_FalseOnRemoteFailureNeverRaises ==
    (call.fn \in {"create_build", "begin_prescan"} /\ call.done)
    => /\ call.result.exc = NoExc
       /\ (ErrorDocument(call.resp) \/ TransportFailure(call.resp))
             => call.result = Ret("False")
       /\ (call.resp.exc = NoExc /\ call.resp.status = 200
           /\ call.resp.root = "doc")
             => call.result = Ret("True")

\* ------------------------------------------------------------------------
\* configure_environment, called on its own and by main
\* ------------------------------------------------------------------------
\* os.environ before the call: the variables unset, set, or one of them set
EnvironsBefore ==
    Environs \cup {[VERACODE_API_KEY_ID |-> KEY_ID_ENV]}

ConfigureCalls ==
    [fn : {"configure_environment"},
     api_key_id : {Str(KEY_ID), Str(KEY_ID_BAD), None, IntVal("5")},
     api_key_secret : {Str(KEY_SECRET), Str(KEY_SECRET_BAD), None},
     before : EnvironsBefore, done : {FALSE}, result : {Ret("")}]

InitConfigureEnvironment ==
    /\ IdleProcess
    /\ call \in ConfigureCalls
    /\ environ = call.before

\* configure_environment(api_key_id=..., api_key_secret=...)
CallConfigureEnvironment ==
    /\ call.fn = "configure_environment"
    /\ ~call.done
    /\ LET e == configure_environment(call.api_key_id, call.api_key_secret) IN
       IF e # NoExc
       THEN /\ call' = [call EXCEPT !.done = TRUE, !.result = Raise(e)]
            /\ UNCHANGED environ
       ELSE /\ call' = [call EXCEPT !.done = TRUE, !.result = Ret("None")]
            /\ environ' = os_environ_after(call.api_key_id, call.api_key_secret)
    /\ UNCHANGED <<entry, pc, wfvars, main_config, sessions, step, outcome>>

\* A run of main, or configure_environment called on its own
SpecConfigureEnvironment ==
    /\ Init \/ InitConfigureEnvironment
    /\ [][Next \/ CallConfigureEnvironment]_vars

\* The credentials pass the rules for their names
ValidCredentials(api_key_id, api_key_secret) ==
    /\ utils_is_valid_attribute("api_key_id", api_key_id) = Ret("True")
    /\ utils_is_valid_attribute("api_key_secret", api_key_secret) = Ret("True")

\* os.environ holds exactly these credentials
EnvironHolds(api_key_id, api_key_secret) ==
    /\ DOMAIN environ = {"VERACODE_API_KEY_ID", "VERACODE_API_KEY_SECRET"}
    /\ environ["VERACODE_API_KEY_ID"] = api_key_id.s
    /\ environ["VERACODE_API_KEY_SECRET"] = api_key_secret.s

\* C24: configure_environment with valid credentials leaves both variables
\* equal to the given values whatever they held; with an invalid api_key_id
\* or api_key_secret it raises ValueError and changes neither; and in a run
\* of main no request of a workflow step is sent before the variables hold
\* the credentials of the configuration.
C24_EnvironmentHoldsTheCredentials ==
    /\ (call.fn = "configure_environment" /\ call.done)
       => IF ValidCredentials(call.api_key_id, call.api_key_secret)
          THEN /\ call.result = Ret("None")
               /\ EnvironHolds(call.api_key_id, call.api_key_secret)
          ELSE /\ call.result = Raise("ValueError")
               /\ environ = call.before
    /\ (entry = "main" /\ requests # <<>>)
       => EnvironHolds(main_config.top["api_key_id"],
                       main_config.top["api_key_secret"])

\* Both variables were set to other values and now hold the given ones
C24_Witness ==
    /\ call.fn = "configure_environment" /\ call.done
    /\ call.result = Ret("None")
    /\ DOMAIN call.before = {"VERACODE_API_KEY_ID", "VERACODE_API_KEY_SECRET"}
    /\ call.before["VERACODE_API_KEY_ID"] # call.api_key_id.s
    /\ EnvironHolds(call.api_key_id, call.api_key_secret)

\* ------------------------------------------------------------------------
\* filter_file called on its own
\* ------------------------------------------------------------------------
\* The longest name, in pieces between dots
MaxPieces == 4

\* The pieces of the names: "" stands between two dots that follow each
\* other, before a leading dot and after a trailing one
Pieces == {"", "file", "tar", "gz", "dll", "bar"}

\* The names of directory entries: not empty, and not "." or ".."
NameSegs ==
    {segs \in UNION {[1..n -> Pieces] : n \in 1..MaxPieces} :
        segs \notin {<<"">>, <<"", "">>, <<"", "", "">>}}

FilterFileCalls ==
    [fn : {"filter_file"}, segs : NameSegs, done : {FALSE}, result : {Ret("")}]

InitFilterFile == Idle /\ call \in FilterFileCalls

\* filter_file(artifact=Path(...))
CallFilterFile ==
    /\ call.fn = "filter_file"
    /\ ~call.done
    /\ call' = [call EXCEPT
          !.done = TRUE,
          !.result = Ret(BoolStr(filter_file(PathOf("artifact", call.segs))))]
    /\ UNCHANGED <<entry, pc, wfvars, mainvars>>

SpecFilterFile == InitFilterFile /\ [][CallFilterFile]_vars

\* The suffixes the whitelist set names, without the dot
WhitelistedPieces == {"dll", "tar"}

\* The name ends in a dot and a whitelisted suffix, and that dot is not the
\* first character of the name
EndsInWhitelistedSuffix(segs) ==
    /\ Len(segs) >= 2
    /\ Last(segs) \in WhitelistedPieces
    /\ \E i \in 1..(Len(segs) - 1) : segs[i] # "" \/ i > 1

\* The name ends in ".tar.gz" after a stem that is more than dots
EndsInTarGz(segs) ==
    /\ Len(segs) >= 3
    /\ segs[Len(segs) - 1] = "tar"
    /\ Last(segs) = "gz"
    /\ \E i \in 1..(Len(segs) - 2) : segs[i] # ""

\* C25: filter_file accepts a path if and only if its final suffix is in
\* the whitelist set or its last two suffixes are exactly '.tar', '.gz';
\* 'file.tar.gz.bar' and 'file.dll.gz' are rejected.
C25_AcceptsExactlyTheWhitelisted ==
    (call.fn = "filter_file" /\ call.done)
    => /\ call.result =
            Ret(BoolStr(EndsInWhitelistedSuffix(call.segs)
                        \/ EndsInTarGz(call.segs)))
       /\ call.segs \in {<<"file", "tar", "gz", "bar">>, <<"file", "dll", "gz">>}
             => call.result = Ret("False")

\* A name with two suffixes that are not the pair was rejected although its
\* first suffix is whitelisted
C25_Witness ==
    /\ call.fn = "filter_file" /\ call.done
    /\ call.segs = <<"file", "dll", "gz">>
    /\ call.result = Ret("False")

\* ------------------------------------------------------------------------
\* setup_scan_prereqs: the order of its requests
\* ------------------------------------------------------------------------
\* C26: in setup_scan_prereqs the readiness query precedes every creation
\* request; a cancellation is requested only after a query that answered
\* "not ready", at most once and before the creation request, and it is
\* what follows such an answer; after a cancellation that failed no creation
\* is ever requested and, when cancel_build returned False, submit_artifacts
\* returns False.
C26_QueryThenCancelThenCreate ==
    LET info == Calls("getbuildinfo.do")
        del == Calls("deletebuild.do")
        cre == Calls("createbuild.do")
    IN /\ \A c \in cre : \E i \in info : i < c
       /\ \A d \in del :
            \E i \in info : i < d /\ requests[i].result = "False"
       /\ \A i \in info :
            (requests[i].result = "False" /\ pc # "cancel_build") => del # {}
       /\ \A i \in info : requests[i].result = "True" => del = {}
       /\ Cardinality(del) <= 1
       /\ \A d \in del : \A c \in cre : d < c
       /\ \A d \in del :
            /\ ~requests[d].ok => cre = {} /\ pc \notin {"create_build"}
            /\ requests[d].result = "False"
                 => cre = {} /\ pc = "done" /\ sa_result = "False"

\* The application was not ready, the cancellation failed and
\* submit_artifacts returned False with no creation requested
C26_Witness ==
    /\ Calls("deletebuild.do") # {}
    /\ \A d \in Calls("deletebuild.do") : requests[d].result = "False"
    /\ Calls("createbuild.do") = {}
    /\ sa_result = "False"

\* ------------------------------------------------------------------------
\* The two validators side by side
\* ------------------------------------------------------------------------
\* C27: for every key and every value is_valid_attribute of veracode.api and
\* is_valid_attribute of veracode.utils give the same result.
C27_ValidatorsDecideIdentically ==
    IsValidAttributeDone
    => api_is_valid_attribute(call.key, call.value)
       = utils_is_valid_attribute(call.key, call.value)

\* ------------------------------------------------------------------------
\* The three boolean options of the effective config
\* ------------------------------------------------------------------------
\* vars(parser.parse_args()) for a command line that gives the application
\* id and any of the three flags; a store_true flag that is not given is
\* False
FlagArgs(disable_auto_scan, disable_scan_nonfatal_modules, ignore) ==
    [api_key_id |-> None,
     api_key_secret |-> None,
     app_id |-> Str("1337"),
     build_dir |-> None,
     build_id |-> None,
     config_file |-> PathVal("/cwd/easy_sast.yml"),
     disable_auto_scan |-> Bool(disable_auto_scan),
     disable_scan_nonfatal_modules |-> Bool(disable_scan_nonfatal_modules),
     ignore_compliance_status |-> Bool(ignore),
     sandbox_name |-> None,
     workflow |-> None,
     loglevel |-> None]

\* The three options with the values a file gives them
FileBooleans(auto_scan, scan_all, ignore) ==
    [auto_scan |-> auto_scan,
     scan_all_nonfatal_top_level_modules |-> scan_all,
     ignore_compliance_status |-> ignore]

\* A YAML document that sets the three options: in the sub-map of the api
\* each belongs to, in every sub-map, or at the top level
BooleanDocument(place, b) ==
    LET named == [app_name |-> Str("TestApp")]
        own(a) == CASE a = "upload" ->
                         [k \in {"auto_scan",
                                 "scan_all_nonfatal_top_level_modules"} |-> b[k]]
                    [] a = "results" -> [ignore_compliance_status |->
                                            b["ignore_compliance_status"]]
                    [] OTHER -> EmptyDict
    IN CASE place = "own" ->
              Config(named, [a \in SUPPORTED_APIS |-> own(a)])
         [] place = "every" ->
              Config(named, [a \in SUPPORTED_APIS |-> b])
         [] OTHER ->
              Config(DictUpdate(named, b), [a \in SUPPORTED_APIS |-> EmptyDict])

BooleanFiles ==
    {FileRead("missing", EmptyConfig)}
    \cup {FileRead("mapping", BooleanDocument(place, b)) :
            place \in {"own", "every", "top"},
            b \in {FileBooleans(Bool(FALSE), Bool(FALSE), Bool(TRUE)),
                   FileBooleans(Bool(TRUE), Bool(TRUE), Bool(FALSE)),
                   FileBooleans(Str("no"), IntVal("5"), Str("yes"))}}

BooleanOptionCalls ==
    [fn : {"get_config"},
     parsed_args : {FlagArgs(a, s, i) : a \in BOOLEAN, s \in BOOLEAN,
                                         i \in BOOLEAN},
     file : BooleanFiles,
     env : Environs,
     done : {FALSE},
     result : {Ret(EmptyConfig)}]

InitBooleanOptions == Idle /\ call \in BooleanOptionCalls

\* get_config() on these command lines and files
SpecBooleanOptions == InitBooleanOptions /\ [][CallGetConfig]_vars

\* C28: in the effective config auto_scan is the negation of
\* --disable-auto-scan, scan_all_nonfatal_top_level_modules the negation of
\* --disable-scan-nonfatal-modules and ignore_compliance_status the value of
\* --ignore-compliance-status, whatever the YAML file sets for them.
C28_BooleanOptionsFollowTheFlags ==
    GotConfig
    => LET apis == call.result.val.apis
           flags == call.parsed_args
       IN /\ "auto_scan" \in DOMAIN apis["upload"]
          /\ apis["upload"]["auto_scan"]
               = Bool(flags.disable_auto_scan = Bool(FALSE))
          /\ "scan_all_nonfatal_top_level_modules" \in DOMAIN apis["upload"]
          /\ apis["upload"]["scan_all_nonfatal_top_level_modules"]
               = Bool(flags.disable_scan_nonfatal_modules = Bool(FALSE))
          /\ "ignore_compliance_status" \in DOMAIN apis["results"]
          /\ apis["results"]["ignore_compliance_status"]
               = flags.ignore_compliance_status
          /\ \A k \in {"auto_scan", "scan_all_nonfatal_top_level_modules",
                       "ignore_compliance_status"} :
               k \notin DOMAIN call.result.val.top

\* The file sets the three options against the flags, each in the sub-map
\* of its api, and the effective config holds what the flags say
C28_Witness ==
    /\ GotConfig
    /\ call.file =
         FileRead("mapping",
                  BooleanDocument("own", FileBooleans(Bool(FALSE), Bool(FALSE),
                                                      Bool(TRUE))))
    /\ call.parsed_args = FlagArgs(FALSE, FALSE, FALSE)
    /\ call.result.val.apis["upload"]["auto_scan"] = Bool(TRUE)
    /\ call.result.val.apis["results"]["ignore_compliance_status"] = Bool(FALSE)

\* ------------------------------------------------------------------------
\* The sessions main makes of an accepted config
\* ------------------------------------------------------------------------
\* main has the config get_config returned
ConfigAccepted == entry = "main" /\ main_config # EmptyConfig

\* C29: with every config that get_config accepts main reaches the workflow
\* loop: it never ends before both sessions exist, whether by an exception
\* from reading app_id of the results and upload sub-maps or from
\* apply_config.
C29_AcceptedConfigMakesTheSessions ==
    (ConfigAccepted /\ pc = "done")
    => /\ {"results", "upload"} \subseteq sessions
       /\ outcome # "KeyError"

\* ------------------------------------------------------------------------
\* submit_artifacts after the build was created
\* ------------------------------------------------------------------------
\* The createbuild.do requests that created a build
Created == {c \in Calls("createbuild.do") : requests[c].result = "True"}

\* After the creation a step failed: no artifact was admitted, the build
\* directory or an artifact could not be read, or a later request failed
FailedAfterCreation ==
    /\ Created # {}
    /\ pc = "done"
    /\ sa_result # "True"

\* C30: submit_artifacts never rolls back: once createbuild.do has
\* succeeded no deletebuild.do is requested, and a later failure (no
\* artifact admitted, an upload failure, a prescan-start failure) ends
\* submit_artifacts with a failure and the build in place.
C30_NoRollbackAfterCreation ==
    /\ \A c \in Created :
         /\ \A i \in DOMAIN requests :
              i > c => requests[i].endpoint # "deletebuild.do"
         /\ (\E i \in DOMAIN requests : i > c /\ requests[i].result # "True")
              => FailedAfterCreation
    /\ (Created # {} /\ pc = "done" /\ artifacts = <<>>) => FailedAfterCreation
    /\ FailedAfterCreation
         => \A i \in DOMAIN requests :
               requests[i].endpoint = "deletebuild.do"
               => \A c \in Created : i < c

\* The prescan did not start after the build was created and an artifact
\* uploaded, and the last request is the one to beginprescan.do
C30_Witness ==
    /\ FailedAfterCreation
    /\ uploaded > 0
    /\ Last(requests).endpoint = "beginprescan.do"
    /\ Last(requests).result # "True"
    /\ Calls("deletebuild.do") = {}

====
